---- MODULE Spec2Model ----
(***************************************************************************)
(* Model of the laiph cellular-automaton engines: GameOfLife3D (with its   *)
(* inline WGSL kernel), GameOfLife4D (with compute-4d.wgsl) and the        *)
(* GPUEngine buffer primitives they are built on; of StateSerializer       *)
(* (JSON and run-length round trips); and of the Application of main.ts,   *)
(* whose event handlers interleave with its suspended readbacks.           *)
(*                                                                         *)
(* A GPU buffer is a function from 0..n-1 to u32 values.  Every device     *)
(* operation of the program (queue.writeBuffer, queue.submit of a compute  *)
(* pass, queue.submit of a copy) goes through the one device queue, which  *)
(* executes in submission order, so each operation is applied to the       *)
(* buffers at the point where the host enqueues it.  A readback enqueues   *)
(* its copy command synchronously, inside the call, so the array its       *)
(* promise later resolves with is fixed by the call: the call and the      *)
(* resolution are one action, and the array is kept until the next call.   *)
(***************************************************************************)
EXTENDS Integers, Sequences, FiniteSets, TLC

(***************************************************************************)
(* Bounds of the model.                                                    *)
(***************************************************************************)
MaxSize3D == 4
MaxSize4D == 1
MaxGen == 2

(***************************************************************************)
(* Program constants.                                                      *)
(***************************************************************************)
\* @workgroup_size(8, 8, 8) of the 3D kernel, @workgroup_size(4, 4, 4) of
\* the 4D kernel.
WorkgroupSize3D == 8
WorkgroupSize4D == 4
\* The edge the host divides the lattice extent by when it dispatches.
HostWorkgroupSize3D == 8
HostWorkgroupSize4D == 4

(***************************************************************************)
(* Arithmetic of the host and of WGSL.                                     *)
(***************************************************************************)
\* Conversion of an integer to u32 (a Uint32Array element, a WGSL u32(...)
\* cast, a u32 expression).  Every value of the model lies in [0, 2^31),
\* where the conversion leaves the value as it is; it is not defined here
\* for other values, so that none can pass through it unnoticed.
Uint32(v) == CASE v >= 0 -> v

\* WGSL "%" on i32: the remainder of truncating division.
RemI32(a, b) == IF a >= 0 THEN a % b ELSE 0 - ((0 - a) % b)

\* Math.ceil(a / b) for positive integers.
CeilDiv(a, b) == (a + b - 1) \div b

\* A load from a storage buffer; an index outside the binding is answered
\* by robust buffer access (never reached by the kernels below).
Load(buf, i) == IF i \in DOMAIN buf THEN buf[i] ELSE 0

\* new Uint32Array(n): n zeroes; also the content of a fresh GPU buffer.
ZeroCells(n) == [i \in 0..(n - 1) |-> 0]

\* for (var d: i32 = -1; d <= 1; d++)
LoopRange == <<-1, 0, 1>>

RECURSIVE SumRange(_, _, _)
SumRange(s, lo, hi) ==
    IF lo > hi THEN 0
    ELSE IF lo = hi THEN s[lo]
    ELSE Uint32(SumRange(s, lo, (lo + hi) \div 2) + SumRange(s, ((lo + hi) \div 2) + 1, hi))

\* count += s[1]; ...; count += s[n] on a u32 accumulator starting at 0u
\* (no sum of the model reaches 2^32, so the order of the additions does
\* not matter and the sum is taken by halves).
SumU32(s) == SumRange(s, 1, Len(s))

(***************************************************************************)
(* The inline compute shader of GameOfLife3D.                              *)
(***************************************************************************)
\* The linear index getCell reads for the (unwrapped) coordinate x, y, z.
WrapIndex3D_NoWrapZ(params, x, y, z) ==
    LET size == params.gridSize
        wx == RemI32(x + size, size)
        wy == RemI32(y + size, size)
        wz == IF z < 0 THEN 0 ELSE IF z >= size THEN size - 1 ELSE z
    IN  Uint32(wx + wy * size + wz * size * size)

WrapIndex3D(params, x, y, z) ==
    LET size == params.gridSize
        wx == RemI32(x + size, size)
        wy == RemI32(y + size, size)
        wz == RemI32(z + size, size)
    IN  Uint32(wx + wy * size + wz * size * size)

getCell3D(params, cellsIn, x, y, z) == Load(cellsIn, WrapIndex3D(params, x, y, z))

\* The iterations of the three nested loops of countNeighbors, in loop
\* order (dx outermost, dz innermost).
LoopIterations3D ==
    LET n == Len(LoopRange)
    IN  [k \in 1..(n * n * n) |->
            << LoopRange[((k - 1) \div (n * n)) + 1],
               LoopRange[(((k - 1) \div n) % n) + 1],
               LoopRange[((k - 1) % n) + 1] >>]

\* if (dx == 0 && dy == 0 && dz == 0) { continue; }
SkipsCenter3D_Or(o) == o[1] = 0 \/ o[2] = 0 \/ o[3] = 0

SkipsCenter3D(o) == o[1] = 0 /\ o[2] = 0 /\ o[3] = 0

\* The offsets for which countNeighbors executes count += getCell(...).
NeighborOffsets3D == SelectSeq(LoopIterations3D, LAMBDA o : ~SkipsCenter3D(o))

countNeighbors3D(params, cellsIn, x, y, z) ==
    LET reads == [k \in 1..Len(NeighborOffsets3D) |->
                    getCell3D(params, cellsIn,
                              x + NeighborOffsets3D[k][1],
                              y + NeighborOffsets3D[k][2],
                              z + NeighborOffsets3D[k][3])]
    IN  SumU32(reads)

\* The survive/birth rule of main.
newState3D_StrictUpper(params, currentState, neighbors) ==
    IF currentState = 1
    THEN IF neighbors >= params.survivalMin /\ neighbors < params.survivalMax
         THEN 1 ELSE 0
    ELSE IF neighbors >= params.birthMin /\ neighbors < params.birthMax
         THEN 1 ELSE 0

newState3D_NoBirthMin(params, currentState, neighbors) ==
    IF currentState = 1
    THEN IF neighbors >= params.survivalMin /\ neighbors <= params.survivalMax
         THEN 1 ELSE 0
    ELSE IF neighbors <= params.birthMax
         THEN 1 ELSE 0

newState3D(params, currentState, neighbors) ==
    IF currentState = 1
    THEN IF neighbors >= params.survivalMin /\ neighbors <= params.survivalMax
         THEN 1 ELSE 0
    ELSE IF neighbors >= params.birthMin /\ neighbors <= params.birthMax
         THEN 1 ELSE 0

\* if (global_id.x >= size || global_id.y >= size || global_id.z >= size) { return; }
InBounds3D_OnlyX(params, gid) == gid[1] < params.gridSize

InBounds3D(params, gid) ==
    /\ gid[1] < params.gridSize
    /\ gid[2] < params.gridSize
    /\ gid[3] < params.gridSize

\* One invocation of main: the set of writes (at most one) it performs,
\* each with the values the invocation computed on the way.
main3D(params, cellsIn, gid) ==
    IF ~InBounds3D(params, gid)
    THEN {}
    ELSE LET size == params.gridSize
             index == Uint32(gid[1] + gid[2] * size + gid[3] * size * size)
             currentState == Load(cellsIn, index)
             neighbors == countNeighbors3D(params, cellsIn, gid[1], gid[2], gid[3])
         IN  {[gid |-> gid, index |-> index, currentState |-> currentState,
               neighbors |-> neighbors,
               newState |-> newState3D(params, currentState, neighbors)]}

\* The global invocation ids of dispatchWorkgroups(n, n, n) with
\* @workgroup_size(8, 8, 8).
GlobalIds3D(workgroups) ==
    LET n == workgroups * WorkgroupSize3D
    IN  (0..(n - 1)) \X (0..(n - 1)) \X (0..(n - 1))

\* All writes of one dispatch of the 3D kernel.
Invocations3D(params, cellsIn, workgroups) ==
    UNION {main3D(params, cellsIn, gid) : gid \in GlobalIds3D(workgroups)}

\* The output buffer after the writes ws: a cell some invocation wrote
\* holds the value written, every other cell keeps its content (writes at
\* an index outside the binding are discarded by robust buffer access).
ApplyWrites(cellsOut, ws) ==
    LET stores == {<<w.index, w.newState>> : w \in ws}
        values == {st[2] : st \in stores}
    IN  [i \in DOMAIN cellsOut |->
            IF \E v \in values : <<i, v>> \in stores
            THEN CHOOSE v \in values : <<i, v>> \in stores
            ELSE cellsOut[i]]

(***************************************************************************)
(* The compute shader of GameOfLife4D (shaders/compute-4d.wgsl).           *)
(***************************************************************************)
coordsToIndex4D(uniforms, coords) ==
    LET g == uniforms.gridSize
    IN  Uint32(coords[1] +
               coords[2] * g[1] +
               coords[3] * g[1] * g[2] +
               coords[4] * g[1] * g[2] * g[3])

\* The wrapped coordinate getCell reads for the (unwrapped) coordinate coords.
Wrapped4D_NoWrapW(uniforms, coords) ==
    LET size == uniforms.gridSize
    IN  << Uint32(RemI32(coords[1] + size[1], size[1])),
           Uint32(RemI32(coords[2] + size[2], size[2])),
           Uint32(RemI32(coords[3] + size[3], size[3])),
           IF coords[4] < 0 THEN 0
           ELSE IF coords[4] >= size[4] THEN size[4] - 1 ELSE coords[4] >>

Wrapped4D(uniforms, coords) ==
    LET size == uniforms.gridSize
    IN  << Uint32(RemI32(coords[1] + size[1], size[1])),
           Uint32(RemI32(coords[2] + size[2], size[2])),
           Uint32(RemI32(coords[3] + size[3], size[3])),
           Uint32(RemI32(coords[4] + size[4], size[4])) >>

getCell4D(uniforms, inputGrid, coords) ==
    Load(inputGrid, coordsToIndex4D(uniforms, Wrapped4D(uniforms, coords)))

\* The iterations of the four nested loops of countNeighbors, in loop
\* order (dx outermost, dw innermost).
LoopIterations4D ==
    LET n == Len(LoopRange)
    IN  [k \in 1..(n * n * n * n) |->
            << LoopRange[((k - 1) \div (n * n * n)) + 1],
               LoopRange[(((k - 1) \div (n * n)) % n) + 1],
               LoopRange[(((k - 1) \div n) % n) + 1],
               LoopRange[((k - 1) % n) + 1] >>]

\* if (dx == 0 && dy == 0 && dz == 0 && dw == 0) { continue; }
SkipsCenter4D_Or(o) == o[1] = 0 \/ o[2] = 0 \/ o[3] = 0 \/ o[4] = 0

SkipsCenter4D(o) == o[1] = 0 /\ o[2] = 0 /\ o[3] = 0 /\ o[4] = 0

\* The offsets for which countNeighbors executes count += getCell(...).
NeighborOffsets4D == SelectSeq(LoopIterations4D, LAMBDA o : ~SkipsCenter4D(o))

countNeighbors4D(uniforms, inputGrid, coords) ==
    LET reads == [k \in 1..Len(NeighborOffsets4D) |->
                    getCell4D(uniforms, inputGrid,
                              << coords[1] + NeighborOffsets4D[k][1],
                                 coords[2] + NeighborOffsets4D[k][2],
                                 coords[3] + NeighborOffsets4D[k][3],
                                 coords[4] + NeighborOffsets4D[k][4] >>)]
    IN  SumU32(reads)

\* The survive/birth rule of main.
newState4D_Normalised(uniforms, currentState, neighbors) ==
    LET lo(a, b) == IF a <= b THEN a ELSE b
        hi(a, b) == IF a <= b THEN b ELSE a
    IN  IF currentState = 1
        THEN IF /\ neighbors >= lo(uniforms.surviveMin, uniforms.surviveMax)
                /\ neighbors <= hi(uniforms.surviveMin, uniforms.surviveMax)
             THEN 1 ELSE 0
        ELSE IF /\ neighbors >= lo(uniforms.birthMin, uniforms.birthMax)
                /\ neighbors <= hi(uniforms.birthMin, uniforms.birthMax)
             THEN 1 ELSE 0

newState4D(uniforms, currentState, neighbors) ==
    IF currentState = 1
    THEN IF neighbors >= uniforms.surviveMin /\ neighbors <= uniforms.surviveMax
         THEN 1 ELSE 0
    ELSE IF neighbors >= uniforms.birthMin /\ neighbors <= uniforms.birthMax
         THEN 1 ELSE 0

\* The XYZ bounds check inside the W loop of main.
InBounds4D(uniforms, gid) ==
    /\ gid[1] < uniforms.gridSize[1]
    /\ gid[2] < uniforms.gridSize[2]
    /\ gid[3] < uniforms.gridSize[3]

\* One invocation of main: it loops over w in [0, gridSize.w) and writes
\* one cell per iteration that passes the bounds check.
main4D(uniforms, inputGrid, gid) ==
    {LET index == coordsToIndex4D(uniforms, <<gid[1], gid[2], gid[3], w>>)
         currentState == Load(inputGrid, index)
         neighbors == countNeighbors4D(uniforms, inputGrid, <<gid[1], gid[2], gid[3], w>>)
     IN  [gid |-> gid, w |-> w, index |-> index, currentState |-> currentState,
          neighbors |-> neighbors,
          newState |-> newState4D(uniforms, currentState, neighbors)]
     : w \in {v \in 0..(uniforms.gridSize[4] - 1) : InBounds4D(uniforms, gid)}}

\* The global invocation ids of dispatchWorkgroups(wx, wy, wz) with
\* @workgroup_size(4, 4, 4).
GlobalIds4D(workgroupsX, workgroupsY, workgroupsZ) ==
    (0..(workgroupsX * WorkgroupSize4D - 1)) \X
    (0..(workgroupsY * WorkgroupSize4D - 1)) \X
    (0..(workgroupsZ * WorkgroupSize4D - 1))

\* All writes of one dispatch of the 4D kernel.
Invocations4D(uniforms, inputGrid, workgroupsX, workgroupsY, workgroupsZ) ==
    UNION {main4D(uniforms, inputGrid, gid) :
               gid \in GlobalIds4D(workgroupsX, workgroupsY, workgroupsZ)}

(***************************************************************************)
(* The reference semantics the engines are compared with: the synchronous  *)
(* update of a D-dimensional torus, by coordinates.                        *)
(***************************************************************************)
RECURSIVE RefStride(_, _)
\* The product of the first k extents.
RefStride(dims, k) == IF k = 0 THEN 1 ELSE dims[k] * RefStride(dims, k - 1)

RefDecode(dims, i) ==
    [k \in 1..Len(dims) |-> (i \div RefStride(dims, k - 1)) % dims[k]]

RECURSIVE RefFlattenTo(_, _, _)
RefFlattenTo(dims, c, k) ==
    IF k = 0 THEN 0 ELSE c[k] * RefStride(dims, k - 1) + RefFlattenTo(dims, c, k - 1)

RefFlatten(dims, c) == RefFlattenTo(dims, c, Len(dims))

\* The Moore neighbourhood: every offset vector except the all-zero one.
RefOffsets3 == {o \in [1..3 -> {-1, 0, 1}] : \E k \in 1..3 : o[k] # 0}

RefOffsets4 == {o \in [1..4 -> {-1, 0, 1}] : \E k \in 1..4 : o[k] # 0}

RefOffsets(D) == IF D = 3 THEN RefOffsets3 ELSE RefOffsets4

\* The number of living cells among the wrapped neighbours of cell i,
\* counted with multiplicity (one per offset).
RefNeighborSum(dims, cells, i) ==
    LET c == RefDecode(dims, i)
    IN  Cardinality({o \in RefOffsets(Len(dims)) :
            cells[RefFlatten(dims, [k \in 1..Len(dims) |-> (c[k] + o[k]) % dims[k]])] = 1})

RefStep(dims, rules, cells) ==
    [i \in DOMAIN cells |->
        LET n == RefNeighborSum(dims, cells, i)
        IN  IF cells[i] = 1
            THEN IF rules.survivalMin <= n /\ n <= rules.survivalMax THEN 1 ELSE 0
            ELSE IF rules.birthMin <= n /\ n <= rules.birthMax THEN 1 ELSE 0]

(***************************************************************************)
(* Inputs: lattice extents, rule sets and seed arrays.                     *)
(***************************************************************************)
GridSizes3D == 1..MaxSize3D

\* GameOfLife4DConfig.gridSize is a 4-tuple: the hypercubic lattices and
\* a lattice with unequal extents, wider than a workgroup on X.
GridSizes4D == {<<s, s, s, s>> : s \in 1..MaxSize4D} \cup {<<5, 2, 1, 2>>}

\* Conway's ranges, a rule with an inverted survival range and a rule with
\* an inverted birth range.
RuleSets ==
    { [survivalMin |-> 2, survivalMax |-> 3, birthMin |-> 3, birthMax |-> 3],
      [survivalMin |-> 3, survivalMax |-> 2, birthMin |-> 1, birthMax |-> 1],
      [survivalMin |-> 1, survivalMax |-> 2, birthMin |-> 2, birthMax |-> 1] }

\* The rules GameOfLife4D falls back to for fields the config leaves out.
DefaultRules4D ==
    [survivalMin |-> 7, survivalMax |-> 10, birthMin |-> 6, birthMax |-> 9]

PatternNames == {"empty", "origin", "blinker"}

Alive(pattern, c) ==
    CASE pattern = "empty"   -> FALSE
      [] pattern = "origin"  -> \A k \in 1..Len(c) : c[k] = 0
      [] pattern = "blinker" -> /\ c[1] = 1
                                /\ c[3] = 1
                                /\ c[2] \in 0..2
                                /\ \A k \in 4..Len(c) : c[k] = 0

\* The 0/1 cell array of a pattern on a lattice of extents dims.
PatternCells(dims, pattern) ==
    [i \in 0..(RefStride(dims, Len(dims)) - 1) |->
        IF Alive(pattern, RefDecode(dims, i)) THEN 1 ELSE 0]

\* Cell arrays of the right length for a lattice of extents dims.
SeedArrays(dims) == {PatternCells(dims, p) : p \in PatternNames}

\* Cell arrays a caller may pass to GameOfLife3D.seed: the right length,
\* one cell short and one cell too many.
SeedInputs3D(size) ==
    SeedArrays(<<size, size, size>>)
        \cup {ZeroCells(size * size * size - 1), ZeroCells(size * size * size + 1)}

Length(cells) == Cardinality(DOMAIN cells)

\* Cell arrays a caller may pass to GameOfLife4D.init and reset: the right
\* length, one cell short and one cell too many (cell 0 alive in both).
SeedInputs4D(dims) ==
    LET n == RefStride(dims, Len(dims))
    IN  SeedArrays(dims) \cup { [i \in 0..(n - 2) |-> IF i = 0 THEN 1 ELSE 0],
                                [i \in 0..n |-> IF i = 0 THEN 1 ELSE 0] }

(***************************************************************************)
(* State.                                                                  *)
(***************************************************************************)
VARIABLES
    dimension,        \* Application.dimension: which engine was constructed
    \* GameOfLife3D
    config, totalCells, cellBuffers, paramsBuffer, bindGroups, currentBuffer,
    generation,
    \* GameOfLife4D
    gridSize, surviveMin, surviveMax, birthMin, birthMax, bufferA, bufferB,
    uniformBuffer, computePipeline, bindGroupA, bindGroupB, currentBuffer4D,
    gridDataSize, currentWSlice,
    \* the array the last call returned, if it was a readback: <<>>, or one
    \* record
    readback,
    \* the error the last call threw ("none" when it returned)
    err,
    \* history: whether the lattice is as a caller's seed array left it (and
    \* that array), the steps since the last seeding, the lattice the
    \* reference semantics gives for the seeding and the steps, and whether
    \* the last call was updateRules
    history,
    \* the last kernel dispatch, while it is the last operation
    trace,
    \* device.queue: the commands submitted and not yet executed, oldest first
    queue,
    \* destroy() was called and has destroyed the engine's buffers
    destroyed,
    \* StateSerializer: the state handed to serialize, the JSON text written
    \* and the state deserialize made of it
    file,
    \* StateSerializer: the locals of compressState and decompressState
    rle,
    \* Application: its fields, the engines it has constructed, the renderer
    \* and the statistics display, and the suspended updateVisualization calls
    app

vars3D == <<config, totalCells, cellBuffers, paramsBuffer, bindGroups, currentBuffer,
            generation>>
vars4D == <<gridSize, surviveMin, surviveMax, birthMin, birthMax, bufferA, bufferB,
            uniformBuffer, computePipeline, bindGroupA, bindGroupB, currentBuffer4D,
            gridDataSize, currentWSlice>>
varsSerializer == <<file, rle>>
varsHost == <<varsSerializer, app>>
vars == <<dimension, vars3D, vars4D, readback, err, history, trace, queue, destroyed,
          varsHost>>

NullBuffer == [null |-> TRUE, data |-> <<>>]
GPUBuffer(data) == [null |-> FALSE, data |-> data]
NullBindGroup == [null |-> TRUE, input |-> "none", output |-> "none"]

NoHistory == [seeded |-> FALSE, seed |-> <<>>, steps |-> 0, ref |-> <<>>, dead |-> FALSE,
              updated |-> FALSE]

\* The caller still holds what the last call handed over for immediate use:
\* the exception it threw, the record of the dispatch it submitted, a slice
\* for the renderer, or a cell array it kept over the last call; or the
\* last call was updateRules and its effect is looked at.  A cell array
\* just returned by getCells/getState is not of this kind: its caller may
\* keep it while the engine runs on.
Pending ==
    \/ err # "none"
    \/ trace # <<>>
    \/ (readback # <<>> /\ (readback[1].op = "get3DSlice" \/ readback[1].since # "none"))
    \/ history.updated

(***************************************************************************)
(* GPUEngine buffer primitives.                                            *)
(***************************************************************************)
\* queue.writeBuffer(buffer, 0, data): data replaces the buffer's content
\* from offset 0 on; data that does not fit in the buffer fails the queue's
\* validation and nothing is written (no exception reaches the caller).
writeBuffer(buffer, data) ==
    IF Length(data) > Length(buffer) THEN buffer
    ELSE [i \in DOMAIN buffer |-> IF i \in DOMAIN data THEN data[i] ELSE buffer[i]]

\* createStorageBuffer: new Uint32Array(buffer.getMappedRange()).set(initialData)
\* throws a RangeError when initialData is longer than the mapped range.
SetThrows(size, initialData) == Length(initialData) > size

\* createStorageBuffer(size, initialData) when set() does not throw.
createStorageBuffer(size, initialData) ==
    [i \in 0..(size - 1) |-> IF i \in DOMAIN initialData THEN initialData[i] ELSE 0]

\* readBuffer: commandEncoder.copyBufferToBuffer(buffer, 0, readBuffer, 0,
\* size): the two buffers after the device has executed the copy.
copyBufferToBuffer_Reversed(source, destination, cells) ==
    [source |-> [i \in DOMAIN source |->
                    IF i < cells THEN Load(destination, i) ELSE source[i]],
     destination |-> destination]

copyBufferToBuffer(source, destination, cells) ==
    [source |-> source,
     destination |-> [i \in DOMAIN destination |->
                         IF i < cells THEN Load(source, i) ELSE destination[i]]]

\* readBuffer(buffer, size): the content of the staging buffer, a fresh
\* buffer of `cells` elements, after the copy command enqueued when
\* readBuffer is called.
readBuffer(buffer, cells) ==
    copyBufferToBuffer(buffer, ZeroCells(cells), cells).destination

\* readBuffer: the buffer that was read, after the copy command.
readBufferSource(buffer, cells) ==
    copyBufferToBuffer(buffer, ZeroCells(cells), cells).source

\* readBuffer: the mapped range of the staging buffer is copied with
\* slice() before unmap(); the array handed back owns its allocation and
\* references neither the staging buffer nor the buffer that was read.
readBufferResult_View(source) == [kind |-> "view", buffer |-> source]

readBufferResult(source) == [kind |-> "copy", buffer |-> source]

\* The array a readback of the buffer `source` returns to its caller, with
\* the history at the time of the call; `since` names the call made on the
\* engine after the array was returned.
Returned(op, source, data) ==
    <<[op |-> op, data |-> data, history |-> history,
       backing |-> readBufferResult(source), since |-> "none"]>>

\* The caller of getCells/getState keeps the returned array over the next
\* call `op` on the engine.
Kept(returned, op) ==
    IF /\ returned # <<>>
       /\ returned[1].op \in {"getCells", "getState"}
       /\ returned[1].since = "none"
    THEN <<[returned[1] EXCEPT !.since = op]>>
    ELSE <<>>

(***************************************************************************)
(* GameOfLife3D.                                                           *)
(***************************************************************************)
Rules3D(cfg) ==
    [survivalMin |-> cfg.survivalMin, survivalMax |-> cfg.survivalMax,
     birthMin |-> cfg.birthMin, birthMax |-> cfg.birthMax]

Dims3D(cfg) == <<cfg.gridSize, cfg.gridSize, cfg.gridSize>>

\* The content of the uniform buffer: new Uint32Array([gridSize, ...]).
createParamsBuffer(cfg) ==
    [gridSize |-> Uint32(cfg.gridSize),
     survivalMin |-> Uint32(cfg.survivalMin), survivalMax |-> Uint32(cfg.survivalMax),
     birthMin |-> Uint32(cfg.birthMin), birthMax |-> Uint32(cfg.birthMax)]

createBindGroup(inputIndex, outputIndex) ==
    [cellsIn |-> inputIndex, cellsOut |-> outputIndex]

\* this.bindGroups = [createBindGroup(0, 1), createBindGroup(1, 0)]
ConstructorBindGroups_Aliased ==
    [i \in 0..1 |-> IF i = 0 THEN createBindGroup(0, 1) ELSE createBindGroup(1, 1)]

ConstructorBindGroups ==
    [i \in 0..1 |-> IF i = 0 THEN createBindGroup(0, 1) ELSE createBindGroup(1, 0)]

\* new GameOfLife3D(engine, cfg)
Constructor3D(cfg) ==
    /\ config = cfg
    /\ totalCells = cfg.gridSize * cfg.gridSize * cfg.gridSize
    /\ cellBuffers = [b \in 0..1 |-> ZeroCells(cfg.gridSize * cfg.gridSize * cfg.gridSize)]
    /\ paramsBuffer = createParamsBuffer(cfg)
    /\ bindGroups = ConstructorBindGroups
    /\ currentBuffer = 0
    /\ generation = 0

\* No GameOfLife3D exists (Application.gameOfLife3D = null).
Absent3D ==
    /\ config = [gridSize |-> 0, survivalMin |-> 0, survivalMax |-> 0,
                 birthMin |-> 0, birthMax |-> 0]
    /\ totalCells = 0
    /\ cellBuffers = [b \in 0..1 |-> <<>>]
    /\ paramsBuffer = createParamsBuffer(config)
    /\ bindGroups = ConstructorBindGroups
    /\ currentBuffer = 0
    /\ generation = 0

\* seed: the buffers after writeBuffer(cellBuffers[currentBuffer], cells).
SeedBuffers3D_Other(buffers, current, cells) ==
    [buffers EXCEPT ![1 - current] = writeBuffer(@, cells)]

SeedBuffers3D(buffers, current, cells) ==
    [buffers EXCEPT ![current] = writeBuffer(@, cells)]

\* seed: this.generation = 0
SeedGeneration3D_Keep(g) == g

SeedGeneration3D(g) == 0

\* seed: if (cells.length !== this.totalCells) throw
SizeMismatch3D_TooShortOnly(cells) == Length(cells) < totalCells

SizeMismatch3D(cells) == Length(cells) # totalCells

Seed3DBody(cells) ==
    IF SizeMismatch3D(cells)
    THEN /\ err' = "Cell array size mismatch"
         /\ trace' = <<>>
         /\ readback' = Kept(readback, "seed")
         /\ UNCHANGED <<varsHost, dimension, destroyed, queue, vars3D, vars4D, history>>
    ELSE /\ cellBuffers' = SeedBuffers3D(cellBuffers, currentBuffer, cells)
         /\ generation' = SeedGeneration3D(generation)
         /\ err' = "none"
         /\ trace' = <<>>
         /\ history' = [seeded |-> TRUE, seed |-> cells, steps |-> 0, ref |-> cells,
                        dead |-> cells = ZeroCells(totalCells), updated |-> FALSE]
         /\ readback' = Kept(readback, "seed")
         /\ UNCHANGED <<varsHost, dimension, destroyed, queue, config, totalCells, paramsBuffer, bindGroups,
                        currentBuffer, vars4D>>

Seed3D ==
    /\ dimension = "3d"
    /\ ~Pending
    /\ ~destroyed
    /\ \E cells \in SeedInputs3D(config.gridSize) : Seed3DBody(cells)

\* seedRandom: every cell is drawn independently, then seed(cells).
SeedRandom3D ==
    /\ dimension = "3d"
    /\ ~Pending
    /\ ~destroyed
    /\ \E cells \in SeedArrays(<<config.gridSize, config.gridSize, config.gridSize>>) :
           Seed3DBody(cells)

\* step: this.currentBuffer = 1 - this.currentBuffer
StepCurrentBuffer3D_NoSwap(current) == current

StepCurrentBuffer3D(current) == 1 - current

\* step: this.generation++
StepGeneration3D(g) == g + 1

Step3D ==
    /\ dimension = "3d"
    /\ ~Pending
    /\ ~destroyed
    /\ history.steps < MaxGen
    /\ currentBuffer' = StepCurrentBuffer3D(currentBuffer)
    /\ generation' = StepGeneration3D(generation)
    /\ LET bindGroup == bindGroups[currentBuffer]
           workgroups == CeilDiv(config.gridSize, HostWorkgroupSize3D)
           invocations == Invocations3D(paramsBuffer, cellBuffers[bindGroup.cellsIn],
                                        workgroups)
       IN  /\ cellBuffers' =
                 [cellBuffers EXCEPT ![bindGroup.cellsOut] = ApplyWrites(@, invocations)]
           /\ trace' = <<[engine |-> "3d",
                          current |-> currentBuffer,
                          input |-> bindGroup.cellsIn,
                          output |-> bindGroup.cellsOut,
                          dims |-> Dims3D(paramsBuffer),
                          rules |-> Rules3D(paramsBuffer),
                          cellsIn |-> cellBuffers[bindGroup.cellsIn],
                          invocations |-> invocations]>>
    /\ err' = "none"
    /\ history' = [seeded |-> FALSE, seed |-> <<>>, steps |-> history.steps + 1,
                   ref |-> RefStep(Dims3D(config), Rules3D(config), history.ref),
                   dead |-> history.dead /\ config.birthMin >= 1,
                   updated |-> FALSE]
    /\ readback' = Kept(readback, "step")
    /\ UNCHANGED <<varsHost, dimension, destroyed, queue, config, totalCells, paramsBuffer, bindGroups, vars4D>>

\* getCells, up to the await: readBuffer enqueues the copy of
\* cellBuffers[currentBuffer].
GetCells3D ==
    /\ dimension = "3d"
    /\ ~Pending
    /\ ~destroyed
    /\ readback' = Returned("getCells", currentBuffer,
                       readBuffer(cellBuffers[currentBuffer], totalCells))
    /\ cellBuffers' = [cellBuffers EXCEPT ![currentBuffer] =
                          readBufferSource(cellBuffers[currentBuffer], totalCells)]
    /\ err' = "none"
    /\ trace' = <<>>
    /\ UNCHANGED <<varsHost, dimension, destroyed, queue, config, totalCells, paramsBuffer,
                   bindGroups, currentBuffer, generation, vars4D, history>>

\* updateRules: this.config = { ...this.config, ...rules }: every field
\* of rules replaces the field of the same name.
UpdatedConfig3D_Relative(cfg, rules) ==
    [gridSize |-> cfg.gridSize,
     survivalMin |-> cfg.survivalMin + rules.survivalMin,
     survivalMax |-> cfg.survivalMax + rules.survivalMax,
     birthMin |-> cfg.birthMin + rules.birthMin,
     birthMax |-> cfg.birthMax + rules.birthMax]

UpdatedConfig3D(cfg, rules) ==
    [field \in DOMAIN cfg |->
        IF field \in DOMAIN rules THEN rules[field] ELSE cfg[field]]

UpdateRules3DBody(rules) ==
    /\ config' = UpdatedConfig3D(config, rules)
    /\ paramsBuffer' = createParamsBuffer(UpdatedConfig3D(config, rules))
    /\ err' = "none"
    /\ trace' = <<>>
    /\ readback' = Kept(readback, "updateRules")
    /\ history' = [history EXCEPT !.updated = TRUE]
    /\ UNCHANGED <<varsHost, dimension, destroyed, queue, totalCells, cellBuffers, bindGroups, currentBuffer,
                   generation, vars4D>>

\* updateRules with the four rule fields, as Application.applyRules passes
\* them.
UpdateRules3D ==
    /\ dimension = "3d"
    /\ ~Pending
    /\ ~destroyed
    /\ \E rules \in RuleSets : UpdateRules3DBody(rules)

\* Partial<GameOfLife3DConfig>: the arguments updateRules accepts besides
\* the four rule fields: no field at all, and gridSize alone.
PartialConfigs3D == {<<>>} \cup {[gridSize |-> size] : size \in GridSizes3D}

\* updateRules(rules: Partial<GameOfLife3DConfig>) with such an argument.
UpdateRulesPartial3D ==
    /\ dimension = "3d"
    /\ ~Pending
    /\ ~destroyed
    /\ \E rules \in PartialConfigs3D : UpdateRules3DBody(rules)

(***************************************************************************)
(* GameOfLife4D.                                                           *)
(***************************************************************************)
Rules4D == [survivalMin |-> surviveMin, survivalMax |-> surviveMax,
            birthMin |-> birthMin, birthMax |-> birthMax]

\* The content of the uniform buffer: gridSize[0..3], then the four rules.
UniformData4D(size, sMin, sMax, bMin, bMax) ==
    [gridSize |-> [k \in 1..4 |-> Uint32(size[k])],
     surviveMin |-> Uint32(sMin), surviveMax |-> Uint32(sMax),
     birthMin |-> Uint32(bMin), birthMax |-> Uint32(bMax)]

\* new GameOfLife4D(engine, {gridSize, ...rules}); every rule field the
\* config leaves out takes its default.
Constructor4D(size, rules) ==
    /\ gridSize = size
    /\ surviveMin = rules.survivalMin
    /\ surviveMax = rules.survivalMax
    /\ birthMin = rules.birthMin
    /\ birthMax = rules.birthMax
    /\ bufferA = NullBuffer
    /\ bufferB = NullBuffer
    /\ uniformBuffer = NullBuffer
    /\ computePipeline = "null"
    /\ bindGroupA = NullBindGroup
    /\ bindGroupB = NullBindGroup
    /\ currentBuffer4D = "A"
    /\ gridDataSize = size[1] * size[2] * size[3] * size[4]
    /\ currentWSlice = 0

\* No GameOfLife4D exists (Application.gameOfLife4D = null).
Absent4D ==
    /\ gridSize = <<0, 0, 0, 0>>
    /\ surviveMin = 0
    /\ surviveMax = 0
    /\ birthMin = 0
    /\ birthMax = 0
    /\ bufferA = NullBuffer
    /\ bufferB = NullBuffer
    /\ uniformBuffer = NullBuffer
    /\ computePipeline = "null"
    /\ bindGroupA = NullBindGroup
    /\ bindGroupB = NullBindGroup
    /\ currentBuffer4D = "A"
    /\ gridDataSize = 0
    /\ currentWSlice = 0

\* The buffer a bind group entry or a method names.
Slot4D(name) == IF name = "A" THEN bufferA ELSE bufferB

\* What is known of the lattice after init/reset stored `stored` in buffer A
\* for the array initData: the array counts as the seed when its length is
\* the lattice's cell count.
SeedHistory4D(initData, stored) ==
    [seeded |-> Length(initData) = gridDataSize,
     seed |-> IF Length(initData) = gridDataSize THEN initData ELSE <<>>,
     steps |-> 0,
     ref |-> stored,
     dead |-> stored = ZeroCells(gridDataSize),
     updated |-> FALSE]

\* init(initialState?); "random" stands for the call without an argument,
\* which draws every cell at random.
Init4DBody(initialState, initData) ==
    /\ uniformBuffer' = GPUBuffer(UniformData4D(gridSize, surviveMin, surviveMax,
                                                birthMin, birthMax))
    /\ IF SetThrows(gridDataSize, initData)
       THEN /\ err' = "RangeError"
            /\ UNCHANGED <<bufferA, bufferB, computePipeline, bindGroupA, bindGroupB,
                           history>>
       ELSE /\ bufferA' = GPUBuffer(createStorageBuffer(gridDataSize, initData))
            /\ bufferB' = GPUBuffer(ZeroCells(gridDataSize))
            /\ computePipeline' = "created"
            /\ bindGroupA' = [null |-> FALSE, input |-> "A", output |-> "B"]
            /\ bindGroupB' = [null |-> FALSE, input |-> "B", output |-> "A"]
            /\ err' = "none"
            /\ history' = SeedHistory4D(initData,
                                        createStorageBuffer(gridDataSize, initData))
    /\ trace' = <<>>
    /\ readback' = Kept(readback, "init")
    /\ UNCHANGED <<varsHost, dimension, destroyed, queue, vars3D, gridSize, surviveMin, surviveMax, birthMin,
                   birthMax, currentBuffer4D, gridDataSize, currentWSlice>>

Init4D ==
    /\ dimension = "4d"
    /\ ~Pending
    /\ ~destroyed
    /\ \E initialState \in {"given", "random"} :
       \E initData \in (IF initialState = "given" THEN SeedInputs4D(gridSize)
                        ELSE SeedArrays(gridSize)) :
           Init4DBody(initialState, initData)

\* step: the bind group chosen for the pass.
StepBindGroup4D == IF currentBuffer4D = "A" THEN bindGroupA ELSE bindGroupB

\* step: this.currentBuffer = this.currentBuffer === 'A' ? 'B' : 'A'
StepCurrentBuffer4D(current) == IF current = "A" THEN "B" ELSE "A"

Step4D ==
    /\ dimension = "4d"
    /\ ~Pending
    /\ ~destroyed
    /\ IF computePipeline = "null" \/ bindGroupA.null \/ bindGroupB.null
       THEN /\ err' = "GameOfLife4D not initialized"
            /\ trace' = <<>>
            /\ readback' = Kept(readback, "step")
            /\ UNCHANGED <<varsHost, dimension, destroyed, queue, vars3D, vars4D, history>>
       ELSE /\ history.steps < MaxGen
            /\ LET bindGroup == StepBindGroup4D
                   invocations ==
                       Invocations4D(uniformBuffer.data, Slot4D(bindGroup.input).data,
                                     CeilDiv(gridSize[1], HostWorkgroupSize4D),
                                     CeilDiv(gridSize[2], HostWorkgroupSize4D),
                                     CeilDiv(gridSize[3], HostWorkgroupSize4D))
                   written == ApplyWrites(Slot4D(bindGroup.output).data, invocations)
               IN  /\ bufferA' = IF bindGroup.output = "A" THEN GPUBuffer(written)
                                 ELSE bufferA
                   /\ bufferB' = IF bindGroup.output = "B" THEN GPUBuffer(written)
                                 ELSE bufferB
                   /\ trace' = <<[engine |-> "4d",
                                  current |-> currentBuffer4D,
                                  input |-> bindGroup.input,
                                  output |-> bindGroup.output,
                                  dims |-> uniformBuffer.data.gridSize,
                                  rules |-> [survivalMin |-> uniformBuffer.data.surviveMin,
                                             survivalMax |-> uniformBuffer.data.surviveMax,
                                             birthMin |-> uniformBuffer.data.birthMin,
                                             birthMax |-> uniformBuffer.data.birthMax],
                                  cellsIn |-> Slot4D(bindGroup.input).data,
                                  invocations |-> invocations]>>
            /\ currentBuffer4D' = StepCurrentBuffer4D(currentBuffer4D)
            /\ err' = "none"
            /\ history' = [seeded |-> FALSE, seed |-> <<>>,
                           steps |-> history.steps + 1,
                           ref |-> RefStep(gridSize, Rules4D, history.ref),
                           dead |-> history.dead /\ birthMin >= 1,
                           updated |-> FALSE]
            /\ readback' = Kept(readback, "step")
            /\ UNCHANGED <<varsHost, dimension, destroyed, queue, vars3D, gridSize, surviveMin, surviveMax, birthMin,
                           birthMax, uniformBuffer, computePipeline, bindGroupA,
                           bindGroupB, gridDataSize, currentWSlice>>

\* getState: const outputBuffer = this.currentBuffer === 'A' ? this.bufferB : this.bufferA
getStateBuffer4D == IF currentBuffer4D = "A" THEN "B" ELSE "A"

\* getCurrentBuffer: const buffer = this.currentBuffer === 'A' ? this.bufferB : this.bufferA
getCurrentBuffer4D == IF currentBuffer4D = "A" THEN "B" ELSE "A"

\* getState: bufferA and bufferB after readBuffer(outputBuffer, gridDataSize * 4).
ReadState4D ==
    /\ bufferA' = IF getStateBuffer4D = "A"
                  THEN GPUBuffer(readBufferSource(bufferA.data, gridDataSize))
                  ELSE bufferA
    /\ bufferB' = IF getStateBuffer4D = "B"
                  THEN GPUBuffer(readBufferSource(bufferB.data, gridDataSize))
                  ELSE bufferB

\* getState, up to the await inside readBuffer.
GetState4D ==
    /\ dimension = "4d"
    /\ ~Pending
    /\ ~destroyed
    /\ trace' = <<>>
    /\ IF Slot4D(getStateBuffer4D).null
       THEN /\ err' = "Buffers not initialized"
            /\ readback' = Kept(readback, "getState")
            /\ UNCHANGED <<bufferA, bufferB>>
       ELSE /\ err' = "none"
            /\ readback' = Returned("getState", getStateBuffer4D,
                               readBuffer(Slot4D(getStateBuffer4D).data, gridDataSize))
            /\ ReadState4D
    /\ UNCHANGED <<varsHost, dimension, destroyed, queue, vars3D, gridSize, surviveMin, surviveMax,
                   birthMin, birthMax, uniformBuffer, computePipeline, bindGroupA,
                   bindGroupB, currentBuffer4D, gridDataSize, currentWSlice, history>>

\* getCurrentBuffer: throws when the buffer is null, hands out the buffer
\* otherwise; nothing is submitted to the device.
GetCurrentBuffer4D ==
    /\ dimension = "4d"
    /\ ~Pending
    /\ ~destroyed
    /\ err' = IF Slot4D(getCurrentBuffer4D).null THEN "Buffers not initialized"
              ELSE "none"
    /\ trace' = <<>>
    /\ readback' = Kept(readback, "getCurrentBuffer")
    /\ UNCHANGED <<varsHost, dimension, destroyed, queue, vars3D, vars4D, history>>

\* fullState[index4D]: an index outside the Uint32Array reads undefined,
\* written here <<>>; an element v reads <<v>>.
Element(array, index) == IF index \in DOMAIN array THEN <<array[index]>> ELSE <<>>

\* slice[index3D] = v: a Uint32Array stores ToUint32(v), 0 for undefined.
ToUint32(v) == IF v = <<>> THEN 0 ELSE v[1]

\* get3DSlice: index4D of the cell (x, y, z) of slice w.
SliceIndex4D_IgnoresW(x, y, z, w) ==
    x + y * gridSize[1] + z * gridSize[1] * gridSize[2]

SliceIndex4D(x, y, z, w) ==
    x + y * gridSize[1] + z * gridSize[1] * gridSize[2]
      + w * gridSize[1] * gridSize[2] * gridSize[3]

\* get3DSlice: index3D of the cell (x, y, z).
SliceIndex3D(x, y, z) == x + y * gridSize[1] + z * gridSize[1] * gridSize[2]

\* get3DSlice: const w = wSlice !== undefined ? wSlice : this.currentWSlice;
\* the argument is <<>> when left out and <<w>> otherwise.
SliceW(wSlice) == IF wSlice = <<>> THEN currentWSlice ELSE wSlice[1]

\* get3DSlice: the slice the three nested loops fill from fullState.
extractSlice(w, fullState) ==
    LET sliceSize == gridSize[1] * gridSize[2] * gridSize[3]
        written == { [index3D |-> SliceIndex3D(x, y, z),
                      value |-> ToUint32(Element(fullState, SliceIndex4D(x, y, z, w)))] :
                         x \in 0..(gridSize[1] - 1), y \in 0..(gridSize[2] - 1),
                         z \in 0..(gridSize[3] - 1) }
    IN  [i \in 0..(sliceSize - 1) |->
            IF \E e \in written : e.index3D = i
            THEN (CHOOSE e \in written : e.index3D = i).value
            ELSE 0]

\* The values a caller passes as wSlice: nothing, and every integer from
\* one below to one above the W range.
SliceArgs == {<<>>} \cup {<<w>> : w \in -1..gridSize[4]}

\* get3DSlice(wSlice?), the await of getState included.
Get3DSlice4D ==
    /\ dimension = "4d"
    /\ ~Pending
    /\ ~destroyed
    /\ trace' = <<>>
    /\ \E wSlice \in SliceArgs :
         IF Slot4D(getStateBuffer4D).null
         THEN /\ err' = "Buffers not initialized"
              /\ readback' = Kept(readback, "get3DSlice")
              /\ UNCHANGED <<bufferA, bufferB>>
         ELSE /\ err' = "none"
              /\ ReadState4D
              /\ readback' =
                    <<[op |-> "get3DSlice",
                       w |-> SliceW(wSlice),
                       data |-> extractSlice(SliceW(wSlice),
                                    readBuffer(Slot4D(getStateBuffer4D).data, gridDataSize)),
                       history |-> history,
                       since |-> "none"]>>
    /\ UNCHANGED <<varsHost, dimension, destroyed, queue, vars3D, gridSize, surviveMin, surviveMax,
                   birthMin, birthMax, uniformBuffer, computePipeline, bindGroupA,
                   bindGroupB, currentBuffer4D, gridDataSize, currentWSlice, history>>

\* setWSlice: Math.max(0, Math.min(w, this.gridSize[3] - 1))
ClampW_UpperOnly(w) == IF w < gridSize[4] - 1 THEN w ELSE gridSize[4] - 1

ClampW(w) ==
    LET min == IF w < gridSize[4] - 1 THEN w ELSE gridSize[4] - 1
    IN  IF 0 > min THEN 0 ELSE min

SetWSlice4D ==
    /\ dimension = "4d"
    /\ ~Pending
    /\ ~destroyed
    /\ \E w \in -1..gridSize[4] : currentWSlice' = ClampW(w)
    /\ err' = "none"
    /\ trace' = <<>>
    /\ readback' = Kept(readback, "setWSlice")
    /\ UNCHANGED <<varsHost, dimension, destroyed, queue, vars3D, gridSize, surviveMin, surviveMax, birthMin,
                   birthMax, bufferA, bufferB, uniformBuffer, computePipeline,
                   bindGroupA, bindGroupB, currentBuffer4D, gridDataSize, history>>

\* reset(initialState?); "random" stands for the call without an argument.
Reset4DBody(initialState, initData) ==
    /\ IF ~bufferA.null /\ ~bufferB.null
       THEN /\ bufferA' = GPUBuffer(writeBuffer(bufferA.data, initData))
            /\ bufferB' = GPUBuffer(writeBuffer(bufferB.data, ZeroCells(gridDataSize)))
            /\ currentBuffer4D' = "A"
            /\ history' = SeedHistory4D(initData, writeBuffer(bufferA.data, initData))
       ELSE UNCHANGED <<bufferA, bufferB, currentBuffer4D, history>>
    /\ currentWSlice' = 0
    /\ err' = "none"
    /\ trace' = <<>>
    /\ readback' = Kept(readback, "reset")
    /\ UNCHANGED <<varsHost, dimension, destroyed, queue, vars3D, gridSize, surviveMin, surviveMax, birthMin,
                   birthMax, uniformBuffer, computePipeline, bindGroupA, bindGroupB,
                   gridDataSize>>

Reset4D ==
    /\ dimension = "4d"
    /\ ~Pending
    /\ ~destroyed
    /\ \E initialState \in {"given", "random"} :
       \E initData \in (IF initialState = "given" THEN SeedInputs4D(gridSize)
                        ELSE SeedArrays(gridSize)) :
           Reset4DBody(initialState, initData)

\* updateRules: if (this.uniformBuffer) queue.writeBuffer(uniformBuffer, 0,
\* uniformData), with the new rules in uniformData.
UpdatedUniform4D(buffer, rules) ==
    IF buffer.null THEN buffer
    ELSE GPUBuffer(UniformData4D(gridSize, rules.survivalMin, rules.survivalMax,
                                 rules.birthMin, rules.birthMax))

UpdateRules4DBody(rules) ==
    /\ surviveMin' = rules.survivalMin
    /\ surviveMax' = rules.survivalMax
    /\ birthMin' = rules.birthMin
    /\ birthMax' = rules.birthMax
    /\ uniformBuffer' = UpdatedUniform4D(uniformBuffer, rules)
    /\ err' = "none"
    /\ trace' = <<>>
    /\ readback' = Kept(readback, "updateRules")
    /\ history' = [history EXCEPT !.updated = TRUE]
    /\ UNCHANGED <<varsHost, dimension, destroyed, queue, vars3D, gridSize, bufferA, bufferB, computePipeline,
                   bindGroupA, bindGroupB, currentBuffer4D, gridDataSize, currentWSlice>>

UpdateRules4D ==
    /\ dimension = "4d"
    /\ ~Pending
    /\ ~destroyed
    /\ \E rules \in RuleSets : UpdateRules4DBody(rules)

\* this.gameOfLife4D.getGeneration(), as Application.update4DVisualization
\* and Application.exportState call it: GameOfLife4D declares neither a
\* generation field nor a getGeneration method, so the call finds undefined
\* where it looks for the function and throws a TypeError.
GetGeneration4D ==
    /\ dimension = "4d"
    /\ ~Pending
    /\ ~destroyed
    /\ err' = "TypeError"
    /\ trace' = <<>>
    /\ readback' = Kept(readback, "getGeneration")
    /\ UNCHANGED <<varsHost, dimension, destroyed, queue, vars3D, vars4D, history>>

\* destroy: cellBuffers[0], cellBuffers[1] and paramsBuffer are destroyed.
\* The Application drops its reference to the engine right after the call,
\* so no call on the engine follows.
Destroy3D ==
    /\ dimension = "3d"
    /\ ~Pending
    /\ ~destroyed
    /\ destroyed' = TRUE
    /\ err' = "none"
    /\ trace' = <<>>
    /\ readback' = Kept(readback, "destroy")
    /\ UNCHANGED <<varsHost, dimension, queue, vars3D, vars4D, history>>

\* destroy: bufferA?.destroy(), bufferB?.destroy(), uniformBuffer?.destroy().
Destroy4D ==
    /\ dimension = "4d"
    /\ ~Pending
    /\ ~destroyed
    /\ destroyed' = (~bufferA.null \/ ~bufferB.null \/ ~uniformBuffer.null)
    /\ err' = "none"
    /\ trace' = <<>>
    /\ readback' = Kept(readback, "destroy")
    /\ UNCHANGED <<varsHost, dimension, queue, vars3D, vars4D, history>>

\* The caller is done with what the last call handed over; no state of the
\* engines changes.
Consume ==
    /\ Pending
    /\ err' = "none"
    /\ trace' = <<>>
    /\ readback' = <<>>
    /\ history' = [history EXCEPT !.updated = FALSE]
    /\ UNCHANGED <<varsHost, dimension, destroyed, queue, vars3D, vars4D>>

(***************************************************************************)
(* The specification: the Application constructs one engine, then calls    *)
(* its methods in any order; the device has executed what a call submitted *)
(* before the next call is made.                                           *)
(***************************************************************************)
\* No serialization is under way.
NoFile == [phase |-> "none"]
NoRle == [phase |-> "none"]

\* No Application runs: an engine is driven directly.
NoApp == [dimension |-> "none"]

Init ==
    /\ queue = <<>>
    /\ destroyed = FALSE
    /\ file = NoFile
    /\ rle = NoRle
    /\ app = NoApp
    /\ dimension \in {"3d", "4d"}
    /\ readback = <<>>
    /\ err = "none"
    /\ trace = <<>>
    /\ IF dimension = "3d"
       THEN /\ \E size \in GridSizes3D : \E rules \in RuleSets :
                   Constructor3D([gridSize |-> size,
                                  survivalMin |-> rules.survivalMin,
                                  survivalMax |-> rules.survivalMax,
                                  birthMin |-> rules.birthMin,
                                  birthMax |-> rules.birthMax])
            /\ Absent4D
            /\ history = [seeded |-> FALSE, seed |-> <<>>, steps |-> 0,
                          ref |-> ZeroCells(totalCells), dead |-> FALSE,
                          updated |-> FALSE]
       ELSE /\ Absent3D
            /\ \E size \in GridSizes4D : \E rules \in RuleSets \cup {DefaultRules4D} :
                   Constructor4D(size, rules)
            /\ history = NoHistory

Next ==
    \/ Seed3D
    \/ SeedRandom3D
    \/ Step3D
    \/ GetCells3D
    \/ UpdateRules3D
    \/ Init4D
    \/ Step4D
    \/ GetState4D
    \/ Get3DSlice4D
    \/ GetCurrentBuffer4D
    \/ GetGeneration4D
    \/ SetWSlice4D
    \/ Reset4D
    \/ UpdateRules4D
    \/ Destroy3D
    \/ Destroy4D
    \/ Consume

Spec == Init /\ [][Next]_vars

(***************************************************************************)
(* GameOfLife3D under every argument updateRules accepts, a partial config *)
(* that names gridSize included.  A dispatch whose parameter buffer holds   *)
(* another extent than the lattice buffers were allocated with indexes      *)
(* outside its bindings; the specification follows the engine up to that    *)
(* dispatch and not through it.                                             *)
(***************************************************************************)
ExtentAllocated3D == config.gridSize * config.gridSize * config.gridSize = totalCells

StepAllocated3D == ExtentAllocated3D /\ Step3D

SeedAllocated3D == ExtentAllocated3D /\ Seed3D

InitConfig == Init /\ dimension = "3d"

NextConfig ==
    \/ SeedAllocated3D
    \/ StepAllocated3D
    \/ GetCells3D
    \/ UpdateRules3D
    \/ UpdateRulesPartial3D
    \/ Destroy3D
    \/ Consume

SpecConfig == InitConfig /\ [][NextConfig]_vars

(***************************************************************************)
(* The device queue.  step and queue.writeBuffer return once their command *)
(* is submitted; the device executes the submitted commands later, in the  *)
(* order of submission, while the host goes on calling the engine.         *)
(***************************************************************************)
MaxQueue == 2
MaxSizeQueue == 2

\* device.queue.submit / device.queue.writeBuffer: the command joins the
\* queue behind everything submitted before it.
Submit_Overtakes(q, command) == <<command>> \o q

Submit(q, command) == Append(q, command)

\* seed, for an array of the lattice's length.
QueueSeed3D ==
    /\ dimension = "3d"
    /\ Len(queue) < MaxQueue
    /\ \E cells \in SeedArrays(Dims3D(config)) :
           queue' = Submit(queue, [cmd |-> "writeBuffer", buffer |-> "cellBuffers",
                                   index |-> currentBuffer, data |-> cells])
    /\ generation' = SeedGeneration3D(generation)
    /\ trace' = <<>>
    /\ UNCHANGED <<varsHost, dimension, destroyed, config, totalCells, cellBuffers, paramsBuffer, bindGroups,
                   currentBuffer, vars4D, readback, err, history>>

\* step: the pass is encoded with bindGroups[currentBuffer] and submitted;
\* `issued` notes the rules of the host when step was called.
QueueStep3D ==
    /\ dimension = "3d"
    /\ Len(queue) < MaxQueue
    /\ history.steps < MaxGen
    /\ queue' = Submit(queue, [cmd |-> "dispatch",
                               bindGroup |-> bindGroups[currentBuffer],
                               workgroups |-> CeilDiv(config.gridSize, HostWorkgroupSize3D),
                               issued |-> Rules3D(config)])
    /\ currentBuffer' = StepCurrentBuffer3D(currentBuffer)
    /\ generation' = StepGeneration3D(generation)
    /\ history' = [history EXCEPT !.steps = @ + 1]
    /\ trace' = <<>>
    /\ UNCHANGED <<varsHost, dimension, destroyed, config, totalCells, cellBuffers, paramsBuffer, bindGroups,
                   vars4D, readback, err>>

QueueUpdateRules3D ==
    /\ dimension = "3d"
    /\ Len(queue) < MaxQueue
    /\ \E rules \in RuleSets :
         /\ config' = UpdatedConfig3D(config, rules)
         /\ queue' = Submit(queue, [cmd |-> "writeBuffer", buffer |-> "paramsBuffer",
                                    index |-> 0,
                                    data |-> createParamsBuffer(
                                                 UpdatedConfig3D(config, rules))])
    /\ trace' = <<>>
    /\ UNCHANGED <<varsHost, dimension, destroyed, totalCells, cellBuffers, paramsBuffer, bindGroups,
                   currentBuffer, generation, vars4D, readback, err, history>>

\* init(initialState), once: every buffer is created and filled while
\* mapped, nothing goes through the queue.
QueueInit4D ==
    /\ dimension = "4d"
    /\ bufferA.null
    /\ \E initData \in SeedArrays(gridSize) : Init4DBody("given", initData)

QueueStep4D ==
    /\ dimension = "4d"
    /\ Len(queue) < MaxQueue
    /\ computePipeline # "null" /\ ~bindGroupA.null /\ ~bindGroupB.null
    /\ history.steps < MaxGen
    /\ queue' = Submit(queue, [cmd |-> "dispatch",
                               bindGroup |-> StepBindGroup4D,
                               workgroups |-> [k \in 1..3 |->
                                                 CeilDiv(gridSize[k], HostWorkgroupSize4D)],
                               issued |-> Rules4D])
    /\ currentBuffer4D' = StepCurrentBuffer4D(currentBuffer4D)
    /\ history' = [history EXCEPT !.steps = @ + 1]
    /\ trace' = <<>>
    /\ UNCHANGED <<varsHost, dimension, destroyed, vars3D, gridSize, surviveMin, surviveMax, birthMin,
                   birthMax, bufferA, bufferB, uniformBuffer, computePipeline,
                   bindGroupA, bindGroupB, gridDataSize, currentWSlice, readback, err>>

QueueUpdateRules4D ==
    /\ dimension = "4d"
    /\ Len(queue) < MaxQueue
    /\ \E rules \in RuleSets :
         /\ surviveMin' = rules.survivalMin
         /\ surviveMax' = rules.survivalMax
         /\ birthMin' = rules.birthMin
         /\ birthMax' = rules.birthMax
         /\ queue' =
               IF uniformBuffer.null THEN queue
               ELSE Submit(queue, [cmd |-> "writeBuffer", buffer |-> "uniformBuffer",
                                   index |-> 0,
                                   data |-> UniformData4D(gridSize, rules.survivalMin,
                                                          rules.survivalMax,
                                                          rules.birthMin, rules.birthMax)])
    /\ trace' = <<>>
    /\ UNCHANGED <<varsHost, dimension, destroyed, vars3D, gridSize, bufferA, bufferB, uniformBuffer,
                   computePipeline, bindGroupA, bindGroupB, currentBuffer4D, gridDataSize,
                   currentWSlice, readback, err, history>>

\* The device executes the oldest command of the queue.
DeviceWrite ==
    /\ cellBuffers' = IF Head(queue).buffer = "cellBuffers"
                      THEN [cellBuffers EXCEPT
                                ![Head(queue).index] = writeBuffer(@, Head(queue).data)]
                      ELSE cellBuffers
    /\ paramsBuffer' = IF Head(queue).buffer = "paramsBuffer" THEN Head(queue).data
                       ELSE paramsBuffer
    /\ uniformBuffer' = IF Head(queue).buffer = "uniformBuffer"
                        THEN GPUBuffer(Head(queue).data)
                        ELSE uniformBuffer
    /\ trace' = <<>>
    /\ UNCHANGED <<bufferA, bufferB>>

DeviceDispatch3D ==
    LET bindGroup == Head(queue).bindGroup
        invocations == Invocations3D(paramsBuffer, cellBuffers[bindGroup.cellsIn],
                                     Head(queue).workgroups)
    IN  /\ cellBuffers' =
              [cellBuffers EXCEPT ![bindGroup.cellsOut] = ApplyWrites(@, invocations)]
        /\ trace' = <<[engine |-> "3d",
                       input |-> bindGroup.cellsIn,
                       output |-> bindGroup.cellsOut,
                       dims |-> Dims3D(paramsBuffer),
                       rules |-> Rules3D(paramsBuffer),
                       issued |-> Head(queue).issued,
                       cellsIn |-> cellBuffers[bindGroup.cellsIn],
                       invocations |-> invocations]>>
        /\ UNCHANGED <<paramsBuffer, bufferA, bufferB, uniformBuffer>>

DeviceDispatch4D ==
    LET bindGroup == Head(queue).bindGroup
        invocations ==
            Invocations4D(uniformBuffer.data, Slot4D(bindGroup.input).data,
                          Head(queue).workgroups[1], Head(queue).workgroups[2],
                          Head(queue).workgroups[3])
        written == ApplyWrites(Slot4D(bindGroup.output).data, invocations)
    IN  /\ bufferA' = IF bindGroup.output = "A" THEN GPUBuffer(written) ELSE bufferA
        /\ bufferB' = IF bindGroup.output = "B" THEN GPUBuffer(written) ELSE bufferB
        /\ trace' = <<[engine |-> "4d",
                       input |-> bindGroup.input,
                       output |-> bindGroup.output,
                       dims |-> uniformBuffer.data.gridSize,
                       rules |-> [survivalMin |-> uniformBuffer.data.surviveMin,
                                  survivalMax |-> uniformBuffer.data.surviveMax,
                                  birthMin |-> uniformBuffer.data.birthMin,
                                  birthMax |-> uniformBuffer.data.birthMax],
                       issued |-> Head(queue).issued,
                       cellsIn |-> Slot4D(bindGroup.input).data,
                       invocations |-> invocations]>>
        /\ UNCHANGED <<cellBuffers, paramsBuffer, uniformBuffer>>

DeviceExecute ==
    /\ queue # <<>>
    /\ queue' = Tail(queue)
    /\ IF Head(queue).cmd = "writeBuffer" THEN DeviceWrite
       ELSE IF dimension = "3d" THEN DeviceDispatch3D
       ELSE DeviceDispatch4D
    /\ UNCHANGED <<varsHost, dimension, destroyed, config, totalCells, bindGroups, currentBuffer, generation,
                   gridSize, surviveMin, surviveMax, birthMin, birthMax, computePipeline,
                   bindGroupA, bindGroupB, currentBuffer4D, gridDataSize, currentWSlice,
                   readback, err, history>>

InitQueue == Init /\ (dimension = "3d" => config.gridSize <= MaxSizeQueue)

NextQueue ==
    \/ QueueSeed3D
    \/ QueueStep3D
    \/ QueueUpdateRules3D
    \/ QueueInit4D
    \/ QueueStep4D
    \/ QueueUpdateRules4D
    \/ DeviceExecute

SpecQueue == InitQueue /\ [][NextQueue]_vars

(***************************************************************************)
(* StateSerializer (utils/serialization.ts).  A JSON text is the sequence  *)
(* of its characters; the text of an object is kept member by member.      *)
(***************************************************************************)
Digits == <<"0", "1", "2", "3", "4", "5", "6", "7", "8", "9">>

\* JSON.stringify of a non-negative integer: its decimal digits.
RECURSIVE NumberText(_)
NumberText(n) ==
    IF n < 10 THEN <<Digits[n + 1]>>
    ELSE NumberText(n \div 10) \o <<Digits[(n % 10) + 1]>>

\* JSON.parse of the text of a non-negative integer.
RECURSIVE TextNumber(_)
TextNumber(text) ==
    IF text = <<>> THEN 0
    ELSE 10 * TextNumber(SubSeq(text, 1, Len(text) - 1))
           + (CHOOSE d \in 0..9 : Digits[d + 1] = text[Len(text)])

\* JSON.stringify of an array of numbers: "[", the elements separated by
\* ",", "]".
RECURSIVE ElementsText(_)
ElementsText(array) ==
    IF array = <<>> THEN <<>>
    ELSE IF Len(array) = 1 THEN NumberText(array[1])
    ELSE NumberText(array[1]) \o <<",">> \o ElementsText(Tail(array))

ArrayText(array) == <<"[">> \o ElementsText(array) \o <<"]">>

\* JSON.parse of the text of an array of numbers.
RECURSIVE TextElements(_)
TextElements(text) ==
    IF text = <<>> THEN <<>>
    ELSE LET commas == {k \in 1..Len(text) : text[k] = ","}
             end == IF commas = {} THEN Len(text) + 1
                    ELSE CHOOSE k \in commas : \A j \in commas : k <= j
         IN  <<TextNumber(SubSeq(text, 1, end - 1))>>
               \o TextElements(SubSeq(text, end + 1, Len(text)))

TextArray(text) == TextElements(SubSeq(text, 2, Len(text) - 1))

\* Array.from(data): the elements of the Uint32Array as a JavaScript array.
ArrayFrom(data) == [k \in 1..Cardinality(DOMAIN data) |-> data[k - 1]]

\* new Uint32Array(array)
NewUint32Array(array) == [i \in 0..(Len(array) - 1) |-> Uint32(array[i + 1])]

\* private static VERSION = 1
VERSION == 1

\* serialize(dimensions, gridSize, data, rules), with Date.now() = now:
\* JSON.stringify(jsonObj).
serialize(dimensions, size, data, rules, now) ==
    [version |-> NumberText(VERSION),
     dimensions |-> NumberText(dimensions),
     gridSize |-> ArrayText(size),
     data |-> ArrayText(ArrayFrom(data)),
     rules |-> [field \in DOMAIN rules |-> NumberText(rules[field])],
     timestamp |-> NumberText(now)]

\* JSON.parse(serialized)
JSONparse(serialized) ==
    [version |-> TextNumber(serialized.version),
     dimensions |-> TextNumber(serialized.dimensions),
     gridSize |-> TextArray(serialized.gridSize),
     data |-> TextArray(serialized.data),
     rules |-> [field \in DOMAIN serialized.rules |->
                   TextNumber(serialized.rules[field])],
     timestamp |-> TextNumber(serialized.timestamp)]

\* deserialize(serialized): the SerializedState returned, or the error
\* thrown.
deserialize(serialized) ==
    LET jsonObj == JSONparse(serialized)
    IN  IF jsonObj.version # VERSION
        THEN [error |-> "Unsupported version"]
        ELSE [error |-> "none",
              version |-> jsonObj.version,
              dimensions |-> jsonObj.dimensions,
              gridSize |-> jsonObj.gridSize,
              data |-> NewUint32Array(jsonObj.data),
              rules |-> jsonObj.rules,
              timestamp |-> jsonObj.timestamp]

\* The states handed to serialize: every 0/1 cell array of a lattice of up
\* to 8 cells, the arrays with at most one living cell of the 4D lattice of
\* extent 2, and two rule sets.
SerializedRules ==
    { [surviveMin |-> 2, surviveMax |-> 3, birthMin |-> 3, birthMax |-> 3],
      [surviveMin |-> 7, surviveMax |-> 10, birthMin |-> 6, birthMax |-> 9] }

SerializedSizes == {<<1, 1, 1>>, <<2, 2, 2>>, <<1, 1, 1, 1>>, <<2, 2, 2, 2>>}

SerializedCells(size) ==
    LET cells == IF Len(size) = 3 THEN size[1] * size[2] * size[3]
                 ELSE size[1] * size[2] * size[3] * size[4]
    IN  IF cells <= 8 THEN [0..(cells - 1) -> {0, 1}]
        ELSE {ZeroCells(cells)}
               \cup {[i \in 0..(cells - 1) |-> IF i = alive THEN 1 ELSE 0] :
                        alive \in 0..(cells - 1)}

\* The timestamps Date.now() returns.
Timestamps == {0, 12}

Serialize ==
    /\ file.phase = "state"
    /\ \E now \in Timestamps :
         file' = [file EXCEPT !.phase = "serialized",
                              !.serialized = serialize(file.state.dimensions,
                                                       file.state.gridSize,
                                                       file.state.data,
                                                       file.state.rules, now)]
    /\ UNCHANGED <<dimension, vars3D, vars4D, readback, err, history, trace, queue,
                   destroyed, rle, app>>

Deserialize ==
    /\ file.phase = "serialized"
    /\ file' = [file EXCEPT !.phase = "deserialized",
                            !.restored = deserialize(file.serialized)]
    /\ UNCHANGED <<dimension, vars3D, vars4D, readback, err, history, trace, queue,
                   destroyed, rle, app>>

\* compressState: count < 65535, the cap of one run.
RunCap == 65535

\* The Uint32Arrays of the run-length coder hold up to hundreds of
\* thousands of elements and are kept as the list of their maximal runs,
\* each [value, count] with count > 0 and neighbours of different values.
\* data.length:
RECURSIVE RunsLength(_)
RunsLength(runs) ==
    IF runs = <<>> THEN 0 ELSE runs[1].count + RunsLength(Tail(runs))

\* data[i]: <<v>> for the element v, <<>> (undefined) past the end.
RECURSIVE RunsAt(_, _)
RunsAt(runs, i) ==
    IF runs = <<>> THEN <<>>
    ELSE IF i < runs[1].count THEN <<runs[1].value>>
    ELSE RunsAt(Tail(runs), i - runs[1].count)

\* The array made of the elements of a followed by those of b.
RunsConcat(a, b) ==
    IF a = <<>> THEN b
    ELSE IF b = <<>> THEN a
    ELSE IF a[Len(a)].value = b[1].value
    THEN SubSeq(a, 1, Len(a) - 1)
           \o <<[value |-> b[1].value, count |-> a[Len(a)].count + b[1].count]>>
           \o Tail(b)
    ELSE a \o b

\* compressState: one iteration of the loop, for element = data[i]; the
\* locals are count, current and compressed.
compressStep_DropsElement(locals, element) ==
    IF element = locals.current /\ locals.count < RunCap
    THEN [locals EXCEPT !.count = @ + 1]
    ELSE [count |-> 0,
          current |-> element,
          compressed |-> locals.compressed \o <<locals.current, <<locals.count>>>>]

compressStep(locals, element) ==
    IF element = locals.current /\ locals.count < RunCap
    THEN [locals EXCEPT !.count = @ + 1]
    ELSE [count |-> 1,
          current |-> element,
          compressed |-> locals.compressed \o <<locals.current, <<locals.count>>>>]

\* compressState(data), up to its loop: count = 0, current = data[0].
CompressStart(data) ==
    [phase |-> "compress",
     data |-> data,
     i |-> 0,
     locals |-> [count |-> 0, current |-> RunsAt(data, 0), compressed |-> <<>>],
     compressed |-> <<>>,
     j |-> 0,
     index |-> 0,
     written |-> <<>>]

\* for (let i = 0; i < data.length; i++) { ... }
CompressLoop ==
    /\ rle.phase = "compress"
    /\ rle.i < RunsLength(rle.data)
    /\ rle' = [rle EXCEPT !.locals = compressStep(@, RunsAt(rle.data, rle.i)),
                          !.i = @ + 1]
    /\ UNCHANGED <<dimension, vars3D, vars4D, readback, err, history, trace, queue,
                   destroyed, file, app>>

\* compressed.push(current, count); return new Uint32Array(compressed);
\* then decompressState(compressed, data.length) up to its loop.
CompressReturn ==
    /\ rle.phase = "compress"
    /\ rle.i >= RunsLength(rle.data)
    /\ rle' = [rle EXCEPT
                 !.phase = "decompress",
                 !.compressed =
                     LET pushed == rle.locals.compressed
                                     \o <<rle.locals.current, <<rle.locals.count>>>>
                     IN  [k \in 0..(Len(pushed) - 1) |-> ToUint32(pushed[k + 1])],
                 !.i = 0]
    /\ UNCHANGED <<dimension, vars3D, vars4D, readback, err, history, trace, queue,
                   destroyed, file, app>>

\* decompressState: the array decompressed: the elements written so far,
\* then the zeroes new Uint32Array(targetSize) left behind them.
decompressed(written, index, targetSize) ==
    IF index < targetSize
    THEN RunsConcat(written, <<[value |-> 0, count |-> targetSize - index]>>)
    ELSE written

\* One iteration of the inner loop, or the end of it and i += 2.
DecompressLoop ==
    /\ rle.phase = "decompress"
    /\ rle.i < Cardinality(DOMAIN rle.compressed)
    /\ LET value == rle.compressed[rle.i]
           count == ToUint32(Element(rle.compressed, rle.i + 1))
       IN  IF rle.j < count
           THEN IF rle.index < RunsLength(rle.data)
                THEN rle' = [rle EXCEPT
                               !.written = RunsConcat(@, <<[value |-> value, count |-> 1]>>),
                               !.index = @ + 1,
                               !.j = @ + 1]
                ELSE rle' = [rle EXCEPT !.j = @ + 1]
           ELSE rle' = [rle EXCEPT !.i = @ + 2, !.j = 0]
    /\ UNCHANGED <<dimension, vars3D, vars4D, readback, err, history, trace, queue,
                   destroyed, file, app>>

\* return decompressed
DecompressReturn ==
    /\ rle.phase = "decompress"
    /\ rle.i >= Cardinality(DOMAIN rle.compressed)
    /\ rle' = [rle EXCEPT !.phase = "done",
                          !.written = decompressed(@, rle.index, RunsLength(rle.data))]
    /\ UNCHANGED <<dimension, vars3D, vars4D, readback, err, history, trace, queue,
                   destroyed, file, app>>

\* The arrays handed to compressState: the empty array, the arrays of up to
\* three runs of up to MaxShortRun elements, the arrays of one run of the
\* cap, of one more and of twice the cap and one more, and the arrays of a
\* short run before or after a run of one more than the cap.
MaxShortRun == 2

Run(value, count) == [value |-> value, count |-> count]

RleInputs ==
    {<<>>}
      \cup {<<Run(v, c)>> : v \in {0, 1, 5}, c \in 1..MaxShortRun}
      \cup {<<Run(v, c1), Run(1 - v, c2)>> : v \in {0, 1}, c1, c2 \in 1..MaxShortRun}
      \cup {<<Run(v, c1), Run(1 - v, c2), Run(v, c1)>> :
               v \in {0, 1}, c1, c2 \in 1..MaxShortRun}
      \cup {<<Run(1, c)>> : c \in {RunCap, RunCap + 1, 2 * RunCap + 1}}
      \cup {<<Run(0, RunCap + 1)>>}
      \cup {<<Run(0, c), Run(1, RunCap + 1)>> : c \in 1..MaxShortRun}
      \cup {<<Run(1, RunCap + 1), Run(0, c)>> : c \in 1..MaxShortRun}

\* No engine exists while the serializer runs on its own.
NoEngine ==
    /\ Absent3D
    /\ Absent4D
    /\ readback = <<>>
    /\ err = "none"
    /\ history = NoHistory
    /\ trace = <<>>
    /\ queue = <<>>
    /\ destroyed = FALSE

InitSerializer ==
    /\ NoEngine
    /\ dimension = "3d"
    /\ app = NoApp
    /\ \/ /\ rle = NoRle
          /\ \E size \in SerializedSizes : \E data \in SerializedCells(size) :
             \E rules \in SerializedRules :
                file = [phase |-> "state",
                        state |-> [dimensions |-> Len(size), gridSize |-> size,
                                   data |-> data, rules |-> rules],
                        serialized |-> <<>>,
                        restored |-> <<>>]
       \/ /\ file = NoFile
          /\ \E data \in RleInputs : rle = CompressStart(data)

NextSerializer ==
    \/ Serialize
    \/ Deserialize
    \/ CompressLoop
    \/ CompressReturn
    \/ DecompressLoop
    \/ DecompressReturn

SpecSerializer == InitSerializer /\ [][NextSerializer]_vars

(***************************************************************************)
(* Application (main.ts).  Every event handler runs to its end or to its   *)
(* first await before another handler or a resumed continuation runs.  An  *)
(* engine is followed here by what the Application sees of it: identity,   *)
(* extent, generation counter, the destroy() calls made on it and the      *)
(* operations made on its buffers; the lattice contents are the subject of *)
(* the engine specifications above.  The state is one record S; the        *)
(* methods are functions from the state before the call to the state       *)
(* after it.  An engine reference is the engine's position in S.engines,   *)
(* 0 for null.                                                             *)
(***************************************************************************)
MaxEngines == 3
MaxPending == 3
MaxAppGen == 1

\* The options of the grid-size select.
AppGridSizes == {2, 4}

\* An operation ("write", "dispatch" or "read") on a lattice or rule
\* buffer of the engine: it is kept in S.afterDestroy when destroy() was
\* called on the engine before.
bufferOp(S, engine, op) ==
    IF S.engines[engine].destroyCalls > 0
    THEN [S EXCEPT !.afterDestroy = @ \cup {[engine |-> engine, op |-> op]}]
    ELSE S

\* updateVisualization, up to its await: in 3D getCells enqueues the copy
\* of the current lattice buffer and the call is suspended with the array
\* to come; in 4D update4DVisualization calls getSlice, which GameOfLife4D
\* does not define, and the promise is rejected.
updateVisualization(S) ==
    IF S.dimension = "3d" /\ S.gameOfLife3D # 0
    THEN LET engine == S.gameOfLife3D
         IN  [bufferOp(S, engine, "read") EXCEPT
                !.pending = Append(@, [engine |-> engine,
                                       generation |-> S.engines[engine].generation,
                                       size |-> S.engines[engine].size])]
    ELSE S

\* initializeSimulation: in 3D the engine is constructed, seeded at random
\* and the renderer resized; in 4D the engine is constructed and
\* seedRandom, which GameOfLife4D does not define, throws.
initializeSimulation(S) ==
    LET engine == Len(S.engines) + 1
    IN  IF S.dimension = "3d"
        THEN LET constructed ==
                     [S EXCEPT !.engines = Append(@, [kind |-> "3d", size |-> S.gridSize,
                                                      generation |-> 0,
                                                      destroyCalls |-> 0]),
                               !.gameOfLife3D = engine]
                 seeded == bufferOp(constructed, engine, "write")
             IN  updateVisualization([seeded EXCEPT !.rendererFor = engine,
                                                    !.rendererSize = S.gridSize])
        ELSE [S EXCEPT !.engines = Append(@, [kind |-> "4d", size |-> S.gridSize \div 2,
                                              generation |-> 0, destroyCalls |-> 0]),
                       !.gameOfLife4D = engine,
                       !.thrown = "TypeError: seedRandom is not a function"]

\* engine.destroy()
destroy_NotCalled(S, engine) == S

destroy(S, engine) == [S EXCEPT !.engines[engine].destroyCalls = @ + 1]

\* this.gameOfLife3D = null; this.gameOfLife4D = null
Null_KeepsReference(reference) == reference

Null(reference) == 0

\* updateDimension
updateDimension(S) ==
    LET without3D == IF S.gameOfLife3D # 0
                     THEN [destroy(S, S.gameOfLife3D) EXCEPT !.gameOfLife3D = Null(@)]
                     ELSE S
        without4D == IF without3D.gameOfLife4D # 0
                     THEN [destroy(without3D, without3D.gameOfLife4D) EXCEPT
                              !.gameOfLife4D = Null(@)]
                     ELSE without3D
    IN  initializeSimulation([without4D EXCEPT !.isPlaying = FALSE])

\* reset
reset(S) == updateDimension([S EXCEPT !.isPlaying = FALSE])

\* step: GameOfLife3D.step dispatches and counts the generation;
\* GameOfLife4D.step throws, the engine never having been initialised.
step(S) ==
    LET stepped3D ==
            IF S.gameOfLife3D # 0
            THEN [bufferOp(S, S.gameOfLife3D, "dispatch") EXCEPT
                     !.engines[S.gameOfLife3D].generation = @ + 1]
            ELSE S
    IN  IF stepped3D.gameOfLife4D # 0
        THEN [stepped3D EXCEPT !.thrown = "Error: GameOfLife4D not initialized"]
        ELSE updateVisualization(stepped3D)

\* applyRules: GameOfLife3D.updateRules writes the parameter buffer;
\* GameOfLife4D.updateRules finds its uniform buffer null and writes none.
applyRules(S) ==
    IF S.gameOfLife3D # 0 THEN bufferOp(S, S.gameOfLife3D, "write") ELSE S

\* The states uploadState hands to the callback of importState: a 3D or a
\* 4D state whose cell array has or has not the length of the lattice.
ImportedStates ==
    {[dimension |-> "3d", gridSize |-> size, fits |-> fits] :
        size \in AppGridSizes, fits \in BOOLEAN}
      \cup {[dimension |-> "4d", gridSize |-> size \div 2, fits |-> fits] :
               size \in AppGridSizes, fits \in BOOLEAN}

\* The callback of importState: an error thrown inside it is caught.
importState(S, state) ==
    LET selected == [S EXCEPT !.isPlaying = FALSE,
                              !.dimension = state.dimension,
                              !.gridSize = IF state.dimension = "3d" THEN state.gridSize
                                           ELSE state.gridSize * 2]
        fresh == updateDimension(selected)
    IN  IF fresh.thrown # "none" THEN fresh
        ELSE IF fresh.gameOfLife3D # 0
        THEN IF state.fits
             THEN updateVisualization(
                      [bufferOp(fresh, fresh.gameOfLife3D, "write") EXCEPT
                          !.engines[fresh.gameOfLife3D].generation = 0])
             ELSE [fresh EXCEPT !.thrown = "Error: Cell array size mismatch"]
        ELSE updateVisualization(fresh)

\* updateVisualization after its await, for the oldest suspended call:
\* renderer.update(cells), then updateStats(cells,
\* this.gameOfLife3D.getGeneration()).
resume(S) ==
    LET cells == Head(S.pending)
        updated == [S EXCEPT !.pending = Tail(@),
                             !.rendered = <<[cells |-> cells,
                                             sizedFor |-> S.rendererFor]>>]
    IN  IF S.gameOfLife3D = 0
        THEN [updated EXCEPT !.thrown = "TypeError: null"]
        ELSE [updated EXCEPT
                 !.stats = <<[cells |-> cells,
                              generation |-> S.engines[S.gameOfLife3D].generation]>>]

\* A handler or continuation has run and left the state S.
Handled(S) ==
    /\ app' = S
    /\ dimension' = S.dimension
    /\ UNCHANGED <<vars3D, vars4D, readback, err, history, trace, queue, destroyed,
                   varsSerializer>>

\* The state a handler starts from: nothing thrown yet.
Entered == [app EXCEPT !.thrown = "none"]

\* Room for one more engine, and for n more suspended calls.
Room(n) == Len(app.engines) < MaxEngines /\ Len(app.pending) + n <= MaxPending

TogglePlayPause == Handled([Entered EXCEPT !.isPlaying = ~@])

StepButton ==
    /\ Len(app.pending) < MaxPending
    /\ app.gameOfLife3D # 0 => app.engines[app.gameOfLife3D].generation < MaxAppGen
    /\ Handled(step(Entered))

\* animate: if (this.isPlaying && this.simulationTimer.shouldUpdate()) step()
Animate ==
    /\ app.isPlaying
    /\ Len(app.pending) < MaxPending
    /\ app.gameOfLife3D # 0 => app.engines[app.gameOfLife3D].generation < MaxAppGen
    /\ Handled(step(Entered))

ResetButton == Room(1) /\ Handled(reset(Entered))

GridSizeChange ==
    /\ Room(1)
    /\ \E size \in AppGridSizes \ {app.gridSize} :
         Handled(reset([Entered EXCEPT !.gridSize = size]))

DimensionChange ==
    /\ Room(1)
    /\ \E value \in {"3d", "4d"} \ {app.dimension} :
         Handled(updateDimension([Entered EXCEPT !.dimension = value]))

VizModeChange ==
    /\ Len(app.pending) < MaxPending
    /\ Handled(updateVisualization(Entered))

ApplyRulesButton == Handled(applyRules(Entered))

ImportState ==
    /\ Room(2)
    /\ \E state \in ImportedStates : Handled(importState(Entered, state))

Resume ==
    /\ app.pending # <<>>
    /\ Handled(resume(Entered))

\* initialize: the fields as declared, then initializeSimulation().
InitApp ==
    /\ NoEngine
    /\ file = NoFile
    /\ rle = NoRle
    /\ \E size \in AppGridSizes :
         app = initializeSimulation(
                   [dimension |-> "3d", gridSize |-> size, isPlaying |-> FALSE,
                    gameOfLife3D |-> 0, gameOfLife4D |-> 0, engines |-> <<>>,
                    rendererFor |-> 0, rendererSize |-> 0, rendered |-> <<>>,
                    stats |-> <<>>, pending |-> <<>>, thrown |-> "none",
                    afterDestroy |-> {}])
    /\ dimension = app.dimension

NextApp ==
    \/ TogglePlayPause
    \/ StepButton
    \/ Animate
    \/ ResetButton
    \/ GridSizeChange
    \/ DimensionChange
    \/ VizModeChange
    \/ ApplyRulesButton
    \/ ImportState
    \/ Resume

SpecApp == InitApp /\ [][NextApp]_vars

(***************************************************************************)
(* Properties.                                                             *)
(***************************************************************************)
AllAlive(n) == [i \in 0..(n - 1) |-> 1]

ConwayRules == [survivalMin |-> 2, survivalMax |-> 3, birthMin |-> 3, birthMax |-> 3]

\* C1: a GameOfLife3D readback returns the lattice the reference update
\* (toroidal 26-neighbour sum, then the survive/birth ranges) gives for the
\* last seed array and the steps taken since; the size-3 blinker under
\* survive=[2,3], birth=[3,3] becomes the hand-computed next generation, in
\* which every one of the 27 cells is alive (each living cell has 2 living
\* neighbours, each dead cell 3).
C1_GetCellsIsReferenceUpdate ==
    /\ (dimension = "3d" /\ readback # <<>>)
           => readback[1].data = readback[1].history.ref
    /\ (/\ dimension = "3d"
        /\ trace # <<>>
        /\ trace[1].dims = <<3, 3, 3>>
        /\ trace[1].rules = ConwayRules
        /\ trace[1].cellsIn = PatternCells(<<3, 3, 3>>, "blinker"))
           => cellBuffers[currentBuffer] = AllAlive(27)

\* C1 witness: getCells after a seed and MaxGen steps returned a lattice
\* with living and dead cells.
C1_Witness ==
    /\ dimension = "3d"
    /\ readback # <<>>
    /\ readback[1].history.steps = MaxGen
    /\ \E i \in DOMAIN readback[1].data : readback[1].data[i] = 1
    /\ \E i \in DOMAIN readback[1].data : readback[1].data[i] = 0

\* C2: getCells issued right after seed(cells) returns cells, whatever
\* calls came before the seed.
C2_SeedGetCellsRoundTrip ==
    (/\ dimension = "3d"
     /\ readback # <<>>
     /\ readback[1].history.seeded)
        => readback[1].data = readback[1].history.seed

\* C2 witness: the seed followed an odd number of steps (the current buffer
\* is the second one) and the array read back has a living cell.
C2_Witness ==
    /\ dimension = "3d"
    /\ readback # <<>>
    /\ readback[1].history.seeded
    /\ currentBuffer = 1
    /\ \E i \in DOMAIN readback[1].data : readback[1].data[i] = 1

\* C3: after n >= 1 steps, getState of GameOfLife4D returns generation n,
\* the content of the buffer the last step wrote, and getCurrentBuffer
\* names that buffer.
C3_GetStateReadsLastGeneration ==
    /\ (/\ dimension = "4d"
        /\ readback # <<>>
        /\ readback[1].history.steps >= 1)
           => readback[1].data = readback[1].history.ref
    /\ (dimension = "4d" /\ trace # <<>>)
           => /\ getStateBuffer4D = trace[1].output
              /\ getCurrentBuffer4D = trace[1].output

\* C4: getState issued right after init(initialState) or
\* reset(initialState) returns initialState.
C4_SeedGetStateRoundTrip ==
    (/\ dimension = "4d"
     /\ readback # <<>>
     /\ readback[1].history.seeded)
        => readback[1].data = readback[1].history.seed

\* C5: every dispatch binds the buffer tagged current as the kernel's
\* input and the other buffer as its output, in both engines.
OtherBuffer(engine, b) ==
    IF engine = "3d" THEN 1 - b ELSE IF b = "A" THEN "B" ELSE "A"

C5_KernelInputIsCurrentOutputIsOther ==
    trace # <<>> =>
        /\ trace[1].input = trace[1].current
        /\ trace[1].output = OtherBuffer(trace[1].engine, trace[1].current)
        /\ trace[1].input # trace[1].output

\* C5 witness: a dispatch of the 3D engine with the second buffer current,
\* reading a lattice with living cells.
C5_Witness ==
    /\ trace # <<>>
    /\ trace[1].engine = "3d"
    /\ trace[1].current = 1
    /\ \E i \in DOMAIN trace[1].cellsIn : trace[1].cellsIn[i] = 1

\* The coordinate of a write: the invocation id, with w in the 4D kernel.
WriteCoord(engine, inv) ==
    IF engine = "3d" THEN inv.gid ELSE <<inv.gid[1], inv.gid[2], inv.gid[3], inv.w>>

\* The index the kernel of the constructed engine reads for the neighbour
\* of cell c at offset o.
KernelReadIndex(c, o) ==
    IF dimension = "3d"
    THEN WrapIndex3D(paramsBuffer, c[1] + o[1], c[2] + o[2], c[3] + o[3])
    ELSE coordsToIndex4D(uniformBuffer.data,
             Wrapped4D(uniformBuffer.data, [k \in 1..4 |-> c[k] + o[k]]))

KernelDims == IF dimension = "3d" THEN Dims3D(paramsBuffer) ELSE uniformBuffer.data.gridSize

KernelReady == dimension = "3d" \/ ~uniformBuffer.null

\* C6: in every dispatch, for every cell and every neighbour offset the
\* kernel reads the cell at ((coord[i] + offset[i] + size) mod size) on
\* every axis, the W axis included; on the 3D lattice of size 4 with
\* (0,0,0) alone alive, the cell (3,3,3) counts one living neighbour.
C6_ToroidalWrap ==
    /\ (KernelReady /\ trace # <<>>) =>
          \A i \in 0..(RefStride(KernelDims, Len(KernelDims)) - 1) :
          \A o \in RefOffsets(Len(KernelDims)) :
              LET c == RefDecode(KernelDims, i)
              IN  KernelReadIndex(c, o) =
                      RefFlatten(KernelDims,
                          [k \in 1..Len(KernelDims) |->
                              (c[k] + o[k] + KernelDims[k]) % KernelDims[k]])
    /\ (/\ trace # <<>>
        /\ trace[1].dims = <<4, 4, 4>>
        /\ trace[1].cellsIn = PatternCells(<<4, 4, 4>>, "origin"))
           => \A inv \in trace[1].invocations :
                  inv.gid = <<3, 3, 3>> => inv.neighbors = 1

\* C6 witness: the size-4 lattice with (0,0,0) alone alive was stepped
\* under a rule with birthMin = 1, and (3,3,3) was born.
C6_Witness ==
    /\ trace # <<>>
    /\ trace[1].dims = <<4, 4, 4>>
    /\ trace[1].cellsIn = PatternCells(<<4, 4, 4>>, "origin")
    /\ trace[1].rules.birthMin = 1
    /\ \E inv \in trace[1].invocations :
           inv.gid = <<3, 3, 3>> /\ inv.currentState = 0 /\ inv.newState = 1

\* The offsets the kernel of the constructed engine adds up.
KernelOffsets == IF dimension = "3d" THEN NeighborOffsets3D ELSE NeighborOffsets4D

\* C7: the neighbour sum is taken over every offset vector of {-1,0,1}^D
\* except the all-zero one, each exactly once (26 reads for D = 3, 80 for
\* D = 4), so the sum of every dispatched cell is the number of living
\* cells among its wrapped Moore neighbours and never includes the cell.
C7_NeighbourOffsetsExactlyOnce ==
    trace # <<>> =>
        /\ Len(KernelOffsets) = (IF dimension = "3d" THEN 26 ELSE 80)
        /\ Cardinality({KernelOffsets[k] : k \in 1..Len(KernelOffsets)})
               = Len(KernelOffsets)
        /\ {KernelOffsets[k] : k \in 1..Len(KernelOffsets)} =
               {o \in (IF dimension = "3d"
                       THEN {-1, 0, 1} \X {-1, 0, 1} \X {-1, 0, 1}
                       ELSE {-1, 0, 1} \X {-1, 0, 1} \X {-1, 0, 1} \X {-1, 0, 1}) :
                   \E k \in 1..Len(o) : o[k] # 0}
        /\ \A inv \in trace[1].invocations :
               inv.neighbors = RefNeighborSum(trace[1].dims, trace[1].cellsIn, inv.index)

\* C7 witness: a dispatched living cell of a 3D lattice without a living
\* neighbour, and a cell with a living neighbour.
C7_Witness ==
    /\ trace # <<>>
    /\ trace[1].engine = "3d"
    /\ \E inv \in trace[1].invocations : inv.currentState = 1 /\ inv.neighbors = 0
    /\ \E inv \in trace[1].invocations : inv.neighbors > 0

\* The content of the buffer the last dispatch wrote.
TraceOutput ==
    IF trace[1].engine = "3d" THEN cellBuffers[trace[1].output]
    ELSE Slot4D(trace[1].output).data

\* C8: a living cell stays alive iff survivalMin <= sum <= survivalMax, a
\* dead cell becomes alive iff birthMin <= sum <= birthMax, and the result
\* is stored at the cell's own linear index of the output buffer.
C8_RuleEvaluation ==
    trace # <<>> =>
        \A inv \in trace[1].invocations :
            LET r == trace[1].rules
                n == inv.neighbors
            IN  /\ inv.index = RefFlatten(trace[1].dims, WriteCoord(trace[1].engine, inv))
                /\ inv.currentState = trace[1].cellsIn[inv.index]
                /\ inv.newState \in {0, 1}
                /\ inv.currentState = 1 =>
                       (inv.newState = 1 <=> (r.survivalMin <= n /\ n <= r.survivalMax))
                /\ inv.currentState # 1 =>
                       (inv.newState = 1 <=> (r.birthMin <= n /\ n <= r.birthMax))
                /\ TraceOutput[inv.index] = inv.newState

\* C8 witness: one dispatch in which a dead cell with birthMax living
\* neighbours was born and a living cell died.
C8_Witness ==
    /\ trace # <<>>
    /\ \E inv \in trace[1].invocations :
           /\ inv.currentState = 0
           /\ inv.neighbors = trace[1].rules.birthMax
           /\ inv.newState = 1
    /\ \E inv \in trace[1].invocations : inv.currentState = 1 /\ inv.newState = 0

\* C9: one step writes each of the size^D cells exactly once and no
\* invocation with a coordinate >= size writes; the dispatched grid covers
\* every extent, multiple of the workgroup edge or not.
C9_EveryCellWrittenOnce ==
    /\ trace # <<>> =>
          LET n == RefStride(trace[1].dims, Len(trace[1].dims))
          IN  /\ Cardinality(trace[1].invocations) = n
              /\ {inv.index : inv \in trace[1].invocations} = 0..(n - 1)
              /\ \A inv \in trace[1].invocations :
                     \A k \in 1..Len(trace[1].dims) :
                         WriteCoord(trace[1].engine, inv)[k] < trace[1].dims[k]
    /\ \A size \in 1..(2 * HostWorkgroupSize3D + 1) :
          {g \in 0..(CeilDiv(size, HostWorkgroupSize3D) * WorkgroupSize3D - 1) : g < size}
              = 0..(size - 1)
    /\ \A size \in 1..(2 * HostWorkgroupSize4D + 1) :
          {g \in 0..(CeilDiv(size, HostWorkgroupSize4D) * WorkgroupSize4D - 1) : g < size}
              = 0..(size - 1)

\* C9 witness: a dispatch over a lattice whose extent is no multiple of
\* the workgroup edge and needs more than one workgroup.
C9_Witness ==
    /\ trace # <<>>
    /\ trace[1].engine = "4d"
    /\ trace[1].dims[1] > WorkgroupSize4D
    /\ trace[1].dims[1] % WorkgroupSize4D # 0
    /\ \E inv \in trace[1].invocations : inv.gid[1] >= WorkgroupSize4D

\* C10: getGeneration of GameOfLife3D is 0 after construction and after
\* every seed/seedRandom, each step adds exactly 1, no other call changes
\* it; so it equals the number of steps since the last seeding.
C10_GenerationCounter ==
    /\ dimension = "3d" => generation = 0
    /\ [](dimension = "3d" => generation = history.steps)
    /\ [][dimension = "3d" =>
            /\ generation' = 0 \/ err' # "none" \/ ~(Seed3D \/ SeedRandom3D)
            /\ generation' = generation + 1 \/ ~Step3D
            /\ generation' = generation
                   \/ ~(GetCells3D \/ UpdateRules3D \/ (err' # "none" /\ Seed3D))]_vars

\* C10 witness: the counter is back at 0 after a seed that followed a step.
C10_Witness ==
    /\ dimension = "3d"
    /\ generation = 0
    /\ history.seeded
    /\ currentBuffer = 1

AllDead(cells) == \A i \in DOMAIN cells : cells[i] = 0

\* C11: in both engines, under every rule set with birthMin >= 1, a step
\* of an all-dead lattice writes an all-dead lattice, and every readback
\* of a lattice seeded all-dead and stepped any number of times since is
\* all-dead.
C11_AllDeadStaysDead ==
    /\ (trace # <<>> /\ AllDead(trace[1].cellsIn) /\ trace[1].rules.birthMin >= 1)
           => AllDead(TraceOutput)
    /\ (readback # <<>> /\ readback[1].history.dead) => AllDead(readback[1].data)

\* C11 witness: a 4D lattice seeded all-dead was stepped MaxGen times and
\* read back.
C11_Witness ==
    /\ dimension = "4d"
    /\ readback # <<>>
    /\ readback[1].history.dead
    /\ readback[1].history.steps = MaxGen
    /\ Length(readback[1].data) > 1

\* C12: on a lattice of size 1 a step completes without error and the
\* neighbour sum of the lone cell is (3^D - 1) * state: 26 * state in 3D,
\* 80 * state in 4D.
C12_SizeOneNeighbourSum ==
    (trace # <<>> /\ \A k \in 1..Len(trace[1].dims) : trace[1].dims[k] = 1)
        => /\ err = "none"
           /\ Cardinality(trace[1].invocations) = 1
           /\ \A inv \in trace[1].invocations :
                  inv.neighbors =
                      (IF trace[1].engine = "3d" THEN 26 ELSE 80) * inv.currentState

\* C12 witness: the lone living cell of a 4D lattice of size 1 was stepped
\* and counted 80 living neighbours.
C12_Witness ==
    /\ trace # <<>>
    /\ trace[1].engine = "4d"
    /\ trace[1].dims = <<1, 1, 1, 1>>
    /\ \E inv \in trace[1].invocations : inv.currentState = 1 /\ inv.neighbors = 80

\* The array getState() returns in the current state of the 4D engine.
FullState4D == readBuffer(Slot4D(getStateBuffer4D).data, gridDataSize)

\* C13: for every w in [0, size) the slice get3DSlice returns equals, cell
\* for cell, the cells of getState() whose 4th coordinate is w:
\* slice[x + y*s + z*s^2] = state[x + y*s + z*s^2 + w*s^3].
C13_SliceIsSubArrayOfState ==
    (/\ readback # <<>>
     /\ readback[1].op = "get3DSlice"
     /\ readback[1].w \in 0..(gridSize[4] - 1))
        => /\ Length(readback[1].data) = gridSize[1] * gridSize[2] * gridSize[3]
           /\ \A x \in 0..(gridSize[1] - 1), y \in 0..(gridSize[2] - 1),
                 z \in 0..(gridSize[3] - 1) :
                  readback[1].data[x + y * gridSize[1] + z * gridSize[1] * gridSize[2]]
                      = FullState4D[x + y * gridSize[1] + z * gridSize[1] * gridSize[2]
                                      + readback[1].w * gridSize[1] * gridSize[2] * gridSize[3]]

\* C13 witness: a slice above w = 0 with a living cell was returned while
\* the slice at w = 0 of the same state differs from it.
C13_Witness ==
    /\ readback # <<>>
    /\ readback[1].op = "get3DSlice"
    /\ readback[1].w = 1
    /\ gridSize[4] = 2
    /\ \E i \in DOMAIN readback[1].data : readback[1].data[i] = 1
    /\ \E i \in DOMAIN readback[1].data : readback[1].data[i] # FullState4D[i]

\* The slice of getState() at W coordinate w.
StateSlice4D(w) ==
    [i \in 0..(gridSize[1] * gridSize[2] * gridSize[3] - 1) |->
        FullState4D[i + w * gridSize[1] * gridSize[2] * gridSize[3]]]

\* C14: the slice index is clamped: the W-slice index setWSlice stores is
\* within [0, size-1], and a slice requested for w < 0 is the slice at 0,
\* one requested for w >= size is the slice at size-1, without an error.
C14_SliceIndexClamped ==
    /\ dimension = "4d" => currentWSlice \in 0..(gridSize[4] - 1)
    /\ (readback # <<>> /\ readback[1].op = "get3DSlice")
           => /\ err = "none"
              /\ readback[1].data =
                     StateSlice4D(IF readback[1].w < 0 THEN 0
                                  ELSE IF readback[1].w >= gridSize[4] THEN gridSize[4] - 1
                                  ELSE readback[1].w)

\* C15: GameOfLife3D.seed(cells) with cells.length # size^3 throws before
\* any device write: both lattice buffers, the current-buffer tag and the
\* generation counter are unchanged, so getCells() returns after the
\* failed call what it returned before it.
C15_FailedSeedChangesNothing ==
    [][\A cells \in SeedInputs3D(config.gridSize) :
           (/\ Length(cells) # totalCells
            /\ dimension = "3d"
            /\ ~Pending
            /\ ~destroyed
            /\ Seed3DBody(cells))
               => /\ err' = "Cell array size mismatch"
                  /\ UNCHANGED <<cellBuffers, currentBuffer, generation>>
                  /\ readBuffer(cellBuffers'[currentBuffer'], totalCells')
                         = readBuffer(cellBuffers[currentBuffer], totalCells)]_vars

\* C15 witness: seed threw on a lattice that had been stepped and holds
\* living cells.
C15_Witness ==
    /\ dimension = "3d"
    /\ err = "Cell array size mismatch"
    /\ generation > 0
    /\ ~AllDead(cellBuffers[currentBuffer])

\* C16: init(initialState) or reset(initialState) with an array whose
\* length differs from gridDataSize fails, and leaves both lattice buffers
\* and the current-buffer tag unchanged.
C16_WrongLengthRejected4D ==
    [][\A initData \in SeedInputs4D(gridSize) :
           (/\ Length(initData) # gridDataSize
            /\ dimension = "4d"
            /\ ~Pending
            /\ ~destroyed
            /\ (Init4DBody("given", initData) \/ Reset4DBody("given", initData)))
               => /\ err' # "none"
                  /\ UNCHANGED <<bufferA, bufferB, currentBuffer4D>>]_vars

\* C17: the kernel of every step reads the rules the last updateRules call
\* before that step() call stored (the constructor's rules if there was
\* none), whatever rule writes were submitted while the step was waiting
\* in the queue.
C17_RulesTakeEffectOnNextStep ==
    trace # <<>> => trace[1].rules = trace[1].issued

\* C17 witness: a step has executed on a lattice with living cells while an
\* updateRules call made after it is still in the queue, and under the
\* rules of that call the step's result would have been another.
C17_Witness ==
    /\ dimension = "3d"
    /\ trace # <<>>
    /\ queue # <<>>
    /\ Head(queue).cmd = "writeBuffer"
    /\ Head(queue).buffer = "paramsBuffer"
    /\ Rules3D(Head(queue).data) # trace[1].issued
    /\ ~AllDead(trace[1].cellsIn)
    /\ ApplyWrites(ZeroCells(totalCells),
                   Invocations3D(Head(queue).data, trace[1].cellsIn,
                                 CeilDiv(config.gridSize, HostWorkgroupSize3D)))
           # ApplyWrites(ZeroCells(totalCells), trace[1].invocations)

\* C18: updateRules(r) called on the state a call of updateRules(r) left
\* changes nothing: the stored rules and the rule-parameter buffer are
\* what the first call made them, and neither call touches the lattice
\* buffers, the current-buffer tag or the generation counter.
C18_UpdateRulesIdempotent ==
    [][\A rules \in RuleSets :
           /\ (dimension = "3d" /\ ~Pending /\ UpdateRules3DBody(rules))
                  => /\ UpdatedConfig3D(config', rules) = config'
                     /\ createParamsBuffer(UpdatedConfig3D(config', rules)) = paramsBuffer'
                     /\ UNCHANGED <<cellBuffers, currentBuffer, generation>>
           /\ (dimension = "4d" /\ ~Pending /\ UpdateRules4DBody(rules))
                  => /\ Rules4D' = rules
                     /\ UpdatedUniform4D(uniformBuffer', rules) = uniformBuffer'
                     /\ UNCHANGED <<bufferA, bufferB, currentBuffer4D>>]_vars

\* C18 witness: the last call was updateRules, on a 3D lattice that has
\* been stepped and holds living cells, and the rules it stored have
\* inverted ranges.
C18_Witness ==
    /\ dimension = "3d"
    /\ history.updated
    /\ history.steps > 0
    /\ ~AllDead(cellBuffers[currentBuffer])
    /\ config.survivalMin > config.survivalMax
    /\ err = "none" /\ trace = <<>> /\ readback = <<>>

\* C19: a step under rules with survivalMin > survivalMax succeeds and
\* leaves no cell alive that was alive; a step under rules with
\* birthMin > birthMax succeeds and makes no dead cell alive.
C19_InvertedRangeIsEmpty ==
    trace # <<>> =>
        /\ err = "none"
        /\ trace[1].rules.survivalMin > trace[1].rules.survivalMax
               => \A i \in DOMAIN trace[1].cellsIn :
                      trace[1].cellsIn[i] = 1 => TraceOutput[i] = 0
        /\ trace[1].rules.birthMin > trace[1].rules.birthMax
               => \A i \in DOMAIN trace[1].cellsIn :
                      trace[1].cellsIn[i] = 0 => TraceOutput[i] = 0

\* C19 witness: a 4D step under survivalMin > survivalMax in which a living
\* cell has a neighbour sum between survivalMax and survivalMin and dies.
C19_Witness ==
    /\ trace # <<>>
    /\ trace[1].engine = "4d"
    /\ trace[1].rules.survivalMin > trace[1].rules.survivalMax
    /\ \E inv \in trace[1].invocations :
           /\ inv.currentState = 1
           /\ inv.neighbors >= trace[1].rules.survivalMax
           /\ inv.neighbors <= trace[1].rules.survivalMin
           /\ inv.newState = 0

\* What a caller reads through an array that getCells/getState returned:
\* the array's own elements, or for a view of a device buffer that buffer's
\* content, which is gone once the buffer is destroyed.
ArrayContents(array) ==
    IF array.backing.kind = "copy" THEN array.data
    ELSE IF destroyed THEN <<>>
    ELSE IF dimension = "3d" THEN readBuffer(cellBuffers[array.backing.buffer], totalCells)
    ELSE readBuffer(Slot4D(array.backing.buffer).data, gridDataSize)

C22_UninitializedCallFails ==
    [][(/\ dimension = "4d"
        /\ computePipeline = "null"
        /\ \/ Step4D
           \/ GetState4D
           \/ Get3DSlice4D
           \/ GetCurrentBuffer4D
           \/ Reset4D
           \/ UpdateRules4D)
          => /\ err' # "none"
             /\ UNCHANGED <<currentBuffer4D, surviveMin, surviveMax, birthMin,
                            birthMax, currentWSlice>>]_vars

\* C25: a readback is a pure observation: getCells, getState and get3DSlice
\* change neither lattice buffer, the current-buffer tag, the rule
\* parameters nor the generation counter, so the lattice reached after k
\* steps does not depend on the readbacks made in between.
C25_ReadbackIsPureObservation ==
    [][(GetCells3D \/ GetState4D \/ Get3DSlice4D)
          => UNCHANGED <<cellBuffers, currentBuffer, config, paramsBuffer, generation,
                         bufferA, bufferB, currentBuffer4D, surviveMin, surviveMax,
                         birthMin, birthMax, uniformBuffer, history>>]_vars

\* A readback of a lattice with a living cell has returned, in 3D after a
\* step and in 4D after init.
C25_Witness ==
    /\ readback # <<>>
    /\ readback[1].since = "none"
    /\ \E i \in DOMAIN readback[1].data : readback[1].data[i] = 1
    /\ dimension = "3d" => generation >= 1

\* C26: GameOfLife3D.updateRules changes only the four rule parameters: for
\* every argument it accepts, the extent written to the parameter buffer
\* stays the extent the lattice buffers were allocated with (gridSize^3 =
\* totalCells), and the lattice buffers, the current tag and the generation
\* are unchanged.
C26_UpdateRulesKeepsExtent ==
    [][(UpdateRules3D \/ UpdateRulesPartial3D)
          => /\ paramsBuffer'.gridSize * paramsBuffer'.gridSize * paramsBuffer'.gridSize
                   = totalCells
             /\ UNCHANGED <<cellBuffers, currentBuffer, generation, totalCells>>]_vars

\* C24: the 4D engine exposes a generation count: getGeneration() returns 0
\* after seed/reset and the number of successful step() calls made since
\* the last seed/reset.
C24_GenerationCount4D ==
    [][GetGeneration4D
          => /\ err' = "none"
             /\ readback' # <<>>
             /\ readback'[1].op = "getGeneration"
             /\ readback'[1].data = history.steps]_vars

\* C23: round trip of the persisted state: for every 0/1 cell array of a
\* lattice, the record serialize writes lists the linear indices whose
\* state is 1, and deserialize makes of it a cell array equal to the
\* original, with dimension, size and rules preserved.
C23_RoundTripOfLivingIndices ==
    file.phase = "deserialized"
      => /\ LET listed == TextArray(file.serialized.data)
            IN  {listed[k] : k \in DOMAIN listed}
                  = {i \in DOMAIN file.state.data : file.state.data[i] = 1}
         /\ file.restored.error = "none"
         /\ file.restored.data = file.state.data
         /\ file.restored.dimensions = file.state.dimensions
         /\ file.restored.gridSize = file.state.gridSize
         /\ file.restored.rules = file.state.rules

\* C30: run-length round trip: for every Uint32Array data, the empty array
\* and runs longer than the per-run cap of 65535 included,
\* decompressState(compressState(data), data.length) equals data element
\* for element.
C30_RunLengthRoundTrip ==
    rle.phase = "done" => rle.written = rle.data

\* An array with a run longer than the cap went through both functions,
\* and compressState split the run.
C30_Witness ==
    /\ rle.phase = "done"
    /\ \E k \in DOMAIN rle.data : rle.data[k].count > RunCap
    /\ Cardinality(DOMAIN rle.compressed) > 2 * Len(rle.data)
    /\ rle.index = RunsLength(rle.data)

C27_ResumedContinuationIsSafe ==
    /\ app.thrown # "TypeError: null"
    /\ app.rendered # <<>> => app.rendered[1].cells.engine = app.rendered[1].sizedFor

\* C28: every statistics update shows a consistent pair: the generation
\* displayed is the generation of the cell array whose living cells were
\* counted.
C28_StatisticsAreConsistent ==
    app.stats # <<>> => app.stats[1].generation = app.stats[1].cells.generation

====
